---- MODULE Spec2Model ----
(***************************************************************************)
(* tflowclient: the flow tree model (FlowNode, RootFlowNode), its          *)
(* cross-refresh ingest operations and the FlowInterface cache facade      *)
(* (tree roots cache, per-root full status cache, refresh gating), with    *)
(* the CdpInterface implementation of the two retrieval hooks.             *)
(***************************************************************************)
EXTENDS Integers, Sequences, FiniteSets, TLC

VARIABLES
    tree_roots,     \* FlowInterface._tree_roots: <<>> (None) or <<RootFlowNode>>
    full_statuses,  \* FlowInterface._full_statuses: root name -> RootFlowNode
    emitted,        \* events sent to the observers by the last operation
    fetched,        \* scheduler fetches issued by the last operation
    call,           \* the last operation and its arguments
    raised,         \* the exception that ended the last operation ("none" if none)
    pre,            \* the caches as they were when the last operation started
    cdp_client_obj, \* CdpInterface._cdp_client_obj: <<>> (None) or <<CdpClient>>
    lock,           \* the holder of CdpInterface._lock ("free" if none)
    rlock,          \* the holder of the _lock of the CdpClient in use
    pc,             \* where the command thread and the heartbeat thread are
    frame,          \* the locals of the _run_cdp_command under way
    hist,           \* what the operation under way has sent, read and logged
    leaked,         \* a subprocess that no CdpClient in use owns is running
    info_list,      \* the ExtraFlowNodeInfo list that node_info gave, as edited
    last_output,    \* the text that the last parser call was given
    last_save,      \* what the last save_node_info did: <<>> or <<record>>
    flow_node,      \* a tree held by the caller: <<>> (None) or <<RootFlowNode>>
    flow_other,     \* a second tree, compared with the first
    add_log,        \* the add calls that built flow_node, in order
    observers,      \* Subject._observers of each node of flow_node
    notified,       \* update_obs_item calls of the last operation, by observer
    node_before,    \* flow_node as it was when the last operation started
    flag_call,      \* the arguments of the last flag_status: <<>> or <<record>>
    smsrc,          \* the last credentials lookup: <<>> or <<record>>
    parsed_status   \* the last status parser call: <<>> or <<record>>

cdpVars == <<cdp_client_obj, lock, rlock, pc, frame, hist, leaked>>

\* The interface and its session.
flowVars == <<tree_roots, full_statuses, emitted, fetched, call, raised, pre,
              cdp_client_obj, lock, rlock, pc, frame, hist, leaked>>

\* The objects handled outside the caches and the session.
infoVars == <<info_list, last_output, last_save>>

obsVars == <<flow_other, observers, notified, node_before, flag_call>>

nodeVars == <<flow_node, add_log, obsVars>>

libVars == <<infoVars, nodeVars, smsrc, parsed_status>>

vars == <<flowVars, libVars>>

(***************************************************************************)
(* FlowStatus and the class constants of FlowNode.                         *)
(***************************************************************************)
FlowStatus ==
    {"ABORTED", "SUBMITTED", "ACTIVE", "QUEUED", "SUSPENDED", "COMPLETE", "UNKNOWN"}

EXPANDED_STATUSES == {"ACTIVE", "ABORTED", "SUBMITTED"}

BLINK_STATUSES == {"ABORTED"}

\* Python's None for the optional values kept as tuples.
None == <<>>

(***************************************************************************)
(* Path strings.  A string is a sequence of tokens; a node name is one     *)
(* token (the empty name contributes no token) and "/" is the separator    *)
(* token.                                                                  *)
(***************************************************************************)
Sep == "/"

Last(s) == s[Len(s)]

Front(s) == SubSeq(s, 1, Len(s) - 1)

\* The characters of a node name.
Str(name) == IF name = "" THEN <<>> ELSE <<name>>

\* "/".join(names)
RECURSIVE Join(_)
Join(names) ==
    IF names = <<>> THEN <<>>
    ELSE IF Len(names) = 1 THEN Str(names[1])
    ELSE Str(names[1]) \o <<Sep>> \o Join(Tail(names))

\* path.split("/"): the segments between the separators (at least one).
RECURSIVE Split(_)
Split(str) ==
    IF \A i \in 1..Len(str) : str[i] # Sep THEN <<str>>
    ELSE LET k == CHOOSE i \in 1..Len(str) :
                     str[i] = Sep /\ \A j \in 1..(i - 1) : str[j] # Sep
         IN  <<SubSeq(str, 1, k - 1)>> \o Split(SubSeq(str, k + 1, Len(str)))

\* path.lstrip("/")
RECURSIVE LStrip(_)
LStrip(str) ==
    IF str # <<>> /\ str[1] = Sep THEN LStrip(Tail(str)) ELSE str

\* str.rstrip("/")
RECURSIVE RStrip(_)
RStrip(str) ==
    IF str # <<>> /\ Last(str) = Sep THEN RStrip(Front(str)) ELSE str

\* "/".join(segments), the segments being strings
RECURSIVE JoinStr(_)
JoinStr(segments) ==
    IF segments = <<>> THEN <<>>
    ELSE IF Len(segments) = 1 THEN segments[1]
    ELSE segments[1] \o <<Sep>> \o JoinStr(Tail(segments))

(***************************************************************************)
(* FlowNode.  A tree is held flat: nodes maps the address of a node (the   *)
(* keys followed from the root through the _children dictionaries) to its  *)
(* fields; children is the insertion-ordered list of the keys of           *)
(* _children.  The parent of the node at address a is the node at          *)
(* Front(a).                                                               *)
(***************************************************************************)
FlowNode(status, is_root) ==
    [status        |-> status,
     expanded      |-> is_root,
     user_expanded |-> None,
     flagged       |-> FALSE,
     children      |-> <<>>]

\* RootFlowNode.__init__ ; oid is the identity of the object, age is
\* time.monotonic() - _c_time.
RootFlowNode(name, status, oid) ==
    [name    |-> name,
     nodes   |-> (<<>> :> FlowNode(status, TRUE)),
     age     |-> 0,
     oid     |-> oid,
     focused |-> None]

IsPrefix(p, a) == Len(p) <= Len(a) /\ SubSeq(a, 1, Len(p)) = p

NodeName(t, addr) == IF addr = <<>> THEN t.name ELSE Last(addr)

\* FlowNode.__len__
NLen(t, addr) == Len(t.nodes[addr].children)

\* FlowNode.blink
blink(t, addr) ==
    t.nodes[addr].status \in BLINK_STATUSES /\ NLen(t, addr) = 0

\* Mutant: the node is expanded, its parents are left as they are.
set_expanded_alone(t, addr) == [t EXCEPT !.nodes[addr].expanded = TRUE]

\* FlowNode.set_expanded_recursively
RECURSIVE set_expanded_recursively(_, _)
set_expanded_recursively(t, addr) ==
    LET t1 == [t EXCEPT !.nodes[addr].expanded = TRUE]
    IN  IF addr # <<>> THEN set_expanded_recursively(t1, Front(addr)) ELSE t1

\* FlowNode.add on the node at address addr: _children[name] is (re)bound to
\* a new node; a key already present keeps its place in the order.
add(t, addr, name, status) ==
    LET child == addr \o <<name>>
        known == \E i \in 1..NLen(t, addr) : t.nodes[addr].children[i] = name
        kept  == {a \in DOMAIN t.nodes : ~IsPrefix(child, a)}
        nodes1 == [a \in kept \cup {child} |->
                      IF a = child THEN FlowNode(status, FALSE)
                      ELSE IF a = addr /\ ~known
                           THEN [t.nodes[a] EXCEPT !.children = @ \o <<name>>]
                           ELSE t.nodes[a]]
        t1 == [t EXCEPT !.nodes = nodes1]
    IN  IF status \in EXPANDED_STATUSES
        THEN set_expanded_recursively(t1, child)
        ELSE t1

\* FlowNode._compute_path: the names met walking the parent links up to the
\* root, reversed and joined.
RECURSIVE PathNames(_, _, _)
PathNames(t, addr, with_root) ==
    IF addr = <<>>
    THEN IF t.name # "" /\ with_root THEN <<t.name>> ELSE <<>>
    ELSE PathNames(t, Front(addr), with_root)
            \o (IF Last(addr) # "" THEN <<Last(addr)>> ELSE <<>>)

_compute_path(t, addr, with_root) == Join(PathNames(t, addr, with_root))

\* FlowNode.path
path(t, addr) == _compute_path(t, addr, FALSE)

\* FlowNode.full_path
full_path(t, addr) == _compute_path(t, addr, TRUE)

\* Mutant: an equality that also compares the flags.
RECURSIVE NodeEq_with_flagged(_, _, _, _)
NodeEq_with_flagged(t1, a1, t2, a2) ==
    /\ NodeName(t1, a1) = NodeName(t2, a2)
    /\ t1.nodes[a1].status = t2.nodes[a2].status
    /\ t1.nodes[a1].flagged = t2.nodes[a2].flagged
    /\ NLen(t1, a1) = NLen(t2, a2)
    /\ \A i \in 1..NLen(t1, a1) :
          NodeEq_with_flagged(t1, a1 \o <<t1.nodes[a1].children[i]>>,
                              t2, a2 \o <<t2.nodes[a2].children[i]>>)

\* FlowNode.__eq__ between the node of t1 at a1 and the node of t2 at a2.
RECURSIVE NodeEq(_, _, _, _)
NodeEq(t1, a1, t2, a2) ==
    /\ NodeName(t1, a1) = NodeName(t2, a2)
    /\ t1.nodes[a1].status = t2.nodes[a2].status
    /\ NLen(t1, a1) = NLen(t2, a2)
    /\ \A i \in 1..NLen(t1, a1) :
          NodeEq(t1, a1 \o <<t1.nodes[a1].children[i]>>,
                 t2, a2 \o <<t2.nodes[a2].children[i]>>)

\* value == other for two optional RootFlowNode (None is equal to no node).
TreeEq(v1, v2) ==
    /\ v1 # None
    /\ v2 # None
    /\ NodeEq(v1[1], <<>>, v2[1], <<>>)

\* FlowNode.resolve_path from the root: the address found, or KeyError.
KeyError == <<"KeyError">>

RECURSIVE Walk(_, _, _)
Walk(t, addr, items) ==
    IF items = <<>> THEN <<"ok", addr>>
    ELSE LET hits == {i \in 1..NLen(t, addr) :
                         Str(t.nodes[addr].children[i]) = items[1]}
         IN  IF hits = {} THEN KeyError
             ELSE LET i == CHOOSE j \in hits : TRUE
                  IN  Walk(t, addr \o <<t.nodes[addr].children[i]>>, Tail(items))

resolve_path(t, str) ==
    IF str # <<>> THEN Walk(t, <<>>, Split(str)) ELSE <<"ok", <<>>>>

\* FlowNode._iter_property_paths for the properties flagged, blink and
\* _user_expanded: path string -> value, for the truthy values below addr.
PropertyValue(t, addr, what) ==
    CASE what = "flagged" -> t.nodes[addr].flagged
      [] what = "blink" -> blink(t, addr)
      [] what = "_user_expanded" -> t.nodes[addr].user_expanded

\* bool(value) for the value of one of these properties: a tuple
\* (bool, status) is truthy, None is not.
Truthy(value, what) ==
    IF what = "_user_expanded" THEN value # None ELSE value

\* dict.update
Update(d1, d2) ==
    [k \in DOMAIN d1 \cup DOMAIN d2 |-> IF k \in DOMAIN d2 THEN d2[k] ELSE d1[k]]

EmptyDict == [k \in {} |-> TRUE]

RECURSIVE _iter_property_paths(_, _, _, _)
RECURSIVE IterChildren(_, _, _, _, _)
_iter_property_paths(t, addr, what, path_base) ==
    LET base  == (IF path_base # <<>> THEN path_base \o <<Sep>> ELSE <<>>)
                    \o Str(NodeName(t, addr))
        value == PropertyValue(t, addr, what)
        own   == IF Truthy(value, what) THEN (base :> value) ELSE EmptyDict
    IN  IterChildren(t, addr, what, base, own)

\* The loop over the children, from the first to the last.
IterChildren(t, addr, what, base, acc) ==
    LET F[i \in 0..NLen(t, addr)] ==
            IF i = 0 THEN acc
            ELSE Update(F[i - 1],
                        _iter_property_paths(
                            t, addr \o <<t.nodes[addr].children[i]>>, what, base))
    IN  F[NLen(t, addr)]

\* The common body of flagged_paths, user_expanded_paths and blink_paths on
\* the root node.
RootPropertyPaths(t, what) ==
    LET value == PropertyValue(t, <<>>, what)
        own   == IF Truthy(value, what) THEN (<<>> :> value) ELSE EmptyDict
    IN  IterChildren(t, <<>>, what, <<>>, own)

\* FlowNode.flagged_paths
flagged_paths(t) == DOMAIN RootPropertyPaths(t, "flagged")

\* FlowNode.user_expanded_paths
user_expanded_paths(t) == RootPropertyPaths(t, "_user_expanded")

\* FlowNode.blink_paths
blink_paths(t) == DOMAIN RootPropertyPaths(t, "blink")

(***************************************************************************)
(* The setters of FlowNode and RootFlowNode used by the user interface,    *)
(* and the ingest operations.                                              *)
(***************************************************************************)
\* FlowNode.flagged setter
set_flagged(t, addr, value) == [t EXCEPT !.nodes[addr].flagged = value]

\* FlowNode.user_expanded setter: the override is stored with the status of
\* the node at the time it is set.
set_user_expanded(t, addr, value) ==
    [t EXCEPT !.nodes[addr].user_expanded = <<value, t.nodes[addr].status>>]

\* FlowNode.user_expanded deleter
del_user_expanded(t, addr) == [t EXCEPT !.nodes[addr].user_expanded = None]

\* FlowNode.user_expanded getter
user_expanded(t, addr) ==
    IF t.nodes[addr].user_expanded = None THEN None
    ELSE <<t.nodes[addr].user_expanded[1]>>

\* RootFlowNode.focused setter: a reference to the node at addr of the tree
\* object owner.
set_focused(t, owner, addr) == [t EXCEPT !.focused = <<owner, addr>>]

\* RootFlowNode.touch
touch(t) == [t EXCEPT !.age = 0]

\* ingest_flagged with the lookup failure caught around the whole loop:
\* one path that no longer resolves and nothing is flagged.
ingest_flagged_all_or_nothing(t, paths) ==
    IF \E p \in paths : resolve_path(t, LStrip(p)) = KeyError THEN t
    ELSE [t EXCEPT !.nodes =
             [a \in DOMAIN t.nodes |->
                 IF \E p \in paths : resolve_path(t, LStrip(p)) = <<"ok", a>>
                 THEN [t.nodes[a] EXCEPT !.flagged = TRUE]
                 ELSE t.nodes[a]]]

\* FlowNode.ingest_flagged
RECURSIVE ingest_flagged(_, _)
ingest_flagged(t, paths) ==
    IF paths = {} THEN t
    ELSE LET f     == CHOOSE p \in paths : TRUE
             found == resolve_path(t, LStrip(f))
             t1    == IF found = KeyError THEN t
                      ELSE set_flagged(t, found[2], TRUE)
         IN  ingest_flagged(t1, paths \ {f})

\* ingest_user_expanded applying every override whose path resolves,
\* whatever the status of the node found.
RECURSIVE ingest_user_expanded_any_status(_, _)
ingest_user_expanded_any_status(t, u_paths) ==
    IF DOMAIN u_paths = {} THEN t
    ELSE LET f     == CHOOSE p \in DOMAIN u_paths : TRUE
             found == resolve_path(t, LStrip(f))
             t1    == IF found = KeyError THEN t
                      ELSE set_user_expanded(t, found[2], u_paths[f][1])
         IN  ingest_user_expanded_any_status(
                 t1, [p \in DOMAIN u_paths \ {f} |-> u_paths[p]])

\* ingest_user_expanded pinning every override, unfold ones too, to the
\* status it was recorded under.
RECURSIVE ingest_user_expanded_all_pinned(_, _)
ingest_user_expanded_all_pinned(t, u_paths) ==
    IF DOMAIN u_paths = {} THEN t
    ELSE LET f     == CHOOSE p \in DOMAIN u_paths : TRUE
             found == resolve_path(t, LStrip(f))
             t1    == IF found = KeyError THEN t
                      ELSE IF \/ t.nodes[found[2]].status = u_paths[f][2]
                              \/ t.nodes[found[2]].status \notin EXPANDED_STATUSES
                           THEN set_user_expanded(t, found[2], u_paths[f][1])
                           ELSE t
         IN  ingest_user_expanded_all_pinned(
                 t1, [p \in DOMAIN u_paths \ {f} |-> u_paths[p]])

\* FlowNode.ingest_user_expanded
RECURSIVE ingest_user_expanded(_, _)
ingest_user_expanded(t, u_paths) ==
    IF DOMAIN u_paths = {} THEN t
    ELSE LET f     == CHOOSE p \in DOMAIN u_paths : TRUE
             value == u_paths[f]
             found == resolve_path(t, LStrip(f))
             t1    == IF found = KeyError THEN t
                      ELSE IF \/ value[1]
                              \/ t.nodes[found[2]].status = value[2]
                              \/ t.nodes[found[2]].status \notin EXPANDED_STATUSES
                           THEN set_user_expanded(t, found[2], value[1])
                           ELSE t
         IN  ingest_user_expanded(
                 t1, [p \in DOMAIN u_paths \ {f} |-> u_paths[p]])

\* ingest_focused without the comparison of the blinking paths.
ingest_focused_no_blink_check(t, focused_path, old_blink_paths) ==
    LET found == resolve_path(t, LStrip(focused_path))
    IN  IF found = KeyError THEN t
        ELSE set_focused(t, t.oid, found[2])

\* ingest_focused falling back on the root node when the focused path is
\* gone.
ingest_focused_root_fallback(t, focused_path, old_blink_paths) ==
    IF blink_paths(t) \subseteq old_blink_paths
    THEN LET found == resolve_path(t, LStrip(focused_path))
         IN  IF found = KeyError THEN set_focused(t, t.oid, <<>>)
             ELSE set_focused(t, t.oid, found[2])
    ELSE t

\* RootFlowNode.ingest_focused
ingest_focused(t, focused_path, old_blink_paths) ==
    IF blink_paths(t) \subseteq old_blink_paths
    THEN LET found == resolve_path(t, LStrip(focused_path))
         IN  IF found = KeyError THEN t
             ELSE set_focused(t, t.oid, found[2])
    ELSE t

(***************************************************************************)
(* FlowInterface.  The object is the record self; a method is an operator  *)
(* that maps self (and what the scheduler answers) to self after the call. *)
(* An exception is recorded in raised and ends the call.                   *)
(***************************************************************************)
min_refresh_interval == 1

NoError == "none"

Raise(self, exc) == [self EXCEPT !.raised = exc]

\* Subject._notify, with one observer attached.
_notify(self, info) == [self EXCEPT !.emitted = Append(@, info)]

\* The identity of an object created while old (None or <<object>>) is alive.
NewOid(old) == IF old = None THEN 0 ELSE 1 - old[1].oid

\* A RootFlowNode as the parser builds it, created as the object oid.
WithOid(t, oid) == [t EXCEPT !.oid = oid]

\* dict.get on the parsed status (a list of RootFlowNode in output order).
ParsedGet(parsed, name) ==
    LET hits == {i \in 1..Len(parsed) : parsed[i].name = name}
    IN  IF hits = {} THEN None ELSE <<parsed[CHOOSE i \in hits : TRUE]>>

\* CdpInterface._build_tree_roots
_build_tree_roots(parsed, oid) ==
    LET F[i \in 0..Len(parsed)] ==
            IF i = 0 THEN RootFlowNode("", "UNKNOWN", oid)
            ELSE add(F[i - 1], <<>>, parsed[i].name, parsed[i].nodes[<<>>].status)
    IN  F[Len(parsed)]

\* FlowInterface._notify_tree_roots
_notify_tree_roots(self) ==
    IF self.tree_roots # None /\ NLen(self.tree_roots[1], <<>>) > 0
    THEN _notify(self, <<"tree_roots", self.tree_roots[1].oid>>)
    ELSE self

\* The record of a command sent to the scheduler: the root asked for (if
\* any) and what the retrieval returned, the roots and the tree of the root.
Fetch(cmd, root, roots, value) ==
    [cmd |-> cmd, root |-> root, roots |-> roots, value |-> value]

Fetched(self, f) == [self EXCEPT !.fetched = Append(@, f)]

\* FlowInterface._notify_status
_notify_status(self, root) ==
    _notify(self, <<"full_status", root, self.full_statuses[root].oid>>)

\* The status command has succeeded and _parse_status_output raises on its
\* output: the exception leaves the method that sent the command.
ParseRaises(reply) == reply.ok /\ reply.exc # NoError

\* CdpInterface._retrieve_tree_roots; reply is the outcome of the status
\* command: ok (no session error) and the parsed status.
_retrieve_tree_roots(self, reply) ==
    IF reply.ok
    THEN _build_tree_roots(reply.parsed, NewOid(self.tree_roots))
    ELSE RootFlowNode("", "UNKNOWN", NewOid(self.tree_roots))

\* FlowInterface._set_tree_roots
_set_tree_roots(self, value) ==
    IF TreeEq(<<value>>, self.tree_roots)
    THEN [self EXCEPT !.tree_roots[1] = touch(@)]
    ELSE _notify_tree_roots([self EXCEPT !.tree_roots = <<value>>])

\* tree_roots handing out an empty roots node instead of raising.
get_tree_roots_no_raise(self, reply) ==
    LET value == _retrieve_tree_roots(self, reply)
    IN  IF self.tree_roots = None
        THEN _notify_tree_roots(
                 [Fetched(self, Fetch("tree_roots", "", <<value>>, None))
                     EXCEPT !.tree_roots = <<value>>])
        ELSE self

\* FlowInterface.tree_roots (the property): self after the access; the
\* value returned is self.tree_roots unless raised is set.
get_tree_roots(self, reply) ==
    LET value == _retrieve_tree_roots(self, reply)
        s1 == IF self.tree_roots = None
              THEN _notify_tree_roots(
                       [Fetched(self, Fetch("tree_roots", "", <<value>>, None))
                           EXCEPT !.tree_roots = <<value>>])
              ELSE self
    IN  IF self.tree_roots = None /\ ParseRaises(reply)
        THEN Raise(Fetched(self, Fetch("tree_roots", "", None, None)), reply.exc)
        ELSE IF s1.tree_roots = None \/ NLen(s1.tree_roots[1], <<>>) = 0
             THEN Raise(s1, "RuntimeError")
             ELSE s1

\* FlowInterface.refresh_tree_roots
refresh_tree_roots(self, force, reply) ==
    LET Renew(s) ==
            LET value == _retrieve_tree_roots(s, reply)
            IN  IF ParseRaises(reply)
                THEN Raise(Fetched(s, Fetch("tree_roots", "", None, None)),
                           reply.exc)
                ELSE _set_tree_roots(
                         Fetched(s, Fetch("tree_roots", "", <<value>>, None)),
                         value)
    IN  IF force THEN Renew(self)
        ELSE LET s1 == get_tree_roots(self, reply)
             IN  IF s1.raised # NoError THEN s1
                 ELSE IF s1.tree_roots[1].age > min_refresh_interval
                      THEN Renew(s1)
                      ELSE s1

\* The identity of a RootFlowNode created for root while the cache is as in
\* self.
NewStatusOid(self, root) ==
    IF root \in DOMAIN self.full_statuses
    THEN NewOid(<<self.full_statuses[root]>>)
    ELSE 0

\* _retrieve_status taking an output that cannot be parsed for a failed
\* command: the placeholder is returned and nothing is raised.
_retrieve_status_absorbing(self, root, reply) ==
    LET unknown == RootFlowNode(root, "UNKNOWN", NewStatusOid(self, root))
    IN  [self  |-> Fetched(self, Fetch("status", root, None,
                                       IF ParseRaises(reply) THEN None
                                       ELSE <<unknown>>)),
         value |-> unknown]

\* CdpInterface._retrieve_status: [self, value], self after the call and
\* the RootFlowNode returned (unless raised is set).
_retrieve_status(self, root, reply) ==
    LET oid == NewStatusOid(self, root)
        unknown == RootFlowNode(root, "UNKNOWN", oid)
    IN  IF ParseRaises(reply)
        THEN [self  |-> Raise(Fetched(self, Fetch("status", root, None, None)),
                              reply.exc),
              value |-> unknown]
        ELSE IF reply.ok
        THEN LET roots == _build_tree_roots(reply.parsed, NewOid(self.tree_roots))
                 new_root_statuses == ParsedGet(reply.parsed, root)
                 value == IF new_root_statuses # None
                             /\ NLen(new_root_statuses[1], <<>>) > 0
                          THEN WithOid(new_root_statuses[1], oid)
                          ELSE unknown
             IN  [self  |-> _set_tree_roots(
                                Fetched(self, Fetch("status", root, <<roots>>, <<value>>)),
                                roots),
                  value |-> value]
        ELSE [self  |-> Fetched(self, Fetch("status", root, None, <<unknown>>)),
              value |-> unknown]

\* The migration of the user's state in FlowInterface._set_full_status.
Ingest(old, value) ==
    LET v1 == ingest_focused(value, path(old, old.focused[2]), blink_paths(old))
        v2 == ingest_flagged(v1, flagged_paths(old))
    IN  ingest_user_expanded(v2, user_expanded_paths(old))

\* _set_full_status without the shortcut for an unchanged tree: the tree
\* fetched always goes through the migration and replaces the cached one.
_set_full_status_always_replace(self, root, value) ==
    IF root \in DOMAIN self.full_statuses
    THEN IF self.full_statuses[root].focused = None
         THEN Raise(self, "AttributeError")
         ELSE _notify_status(
                  [self EXCEPT !.full_statuses[root] =
                      Ingest(self.full_statuses[root], value)],
                  root)
    ELSE _notify_status(
             [self EXCEPT !.full_statuses = Update(@, root :> value)],
             root)

\* FlowInterface._set_full_status
_set_full_status(self, root, value) ==
    IF root \in DOMAIN self.full_statuses
       /\ NodeEq(value, <<>>, self.full_statuses[root], <<>>)
    THEN [self EXCEPT !.full_statuses[root] = touch(@)]
    ELSE IF root \in DOMAIN self.full_statuses
         THEN IF self.full_statuses[root].focused = None
              THEN Raise(self, "AttributeError")
              ELSE _notify_status(
                       [self EXCEPT !.full_statuses[root] =
                           Ingest(self.full_statuses[root], value)],
                       root)
         ELSE _notify_status(
                  [self EXCEPT !.full_statuses = Update(@, root :> value)],
                  root)

\* The condition of the status fetch with a strict comparison of the age.
RefreshNeeded_strict(self, root, force) ==
    \/ force
    \/ root \notin DOMAIN self.full_statuses
    \/ self.full_statuses[root].age > min_refresh_interval

\* The condition of the status fetch in FlowInterface.refresh.
RefreshNeeded(self, root, force) ==
    \/ force
    \/ root \notin DOMAIN self.full_statuses
    \/ self.full_statuses[root].age >= min_refresh_interval

\* FlowInterface.refresh
refresh(self, root, force, status_reply, roots_reply) ==
    LET s1 == IF RefreshNeeded(self, root, force)
              THEN LET r == _retrieve_status(self, root, status_reply)
                   IN  IF r.self.raised # NoError THEN r.self
                       ELSE _set_full_status(r.self, root, r.value)
              ELSE self
    IN  IF s1.raised # NoError THEN s1
        ELSE refresh_tree_roots(s1, FALSE, roots_reply)

\* full_status without the check of the root against the tree roots.
full_status_unchecked(self, root, roots_reply, status_replies) ==
    LET s1 == get_tree_roots(self, roots_reply)
    IN  IF s1.raised # NoError THEN s1
        ELSE IF root \notin DOMAIN s1.full_statuses
             THEN LET r == _retrieve_status(s1, root, status_replies)
                  IN  IF r.self.raised # NoError THEN r.self
                      ELSE _notify_status(
                          [r.self EXCEPT
                              !.full_statuses = Update(@, root :> r.value)],
                          root)
             ELSE s1

\* FlowInterface.full_status: self after the call; the value returned is
\* self.full_statuses[root] unless raised is set.
full_status(self, root, roots_reply, status_reply) ==
    LET s1 == get_tree_roots(self, roots_reply)
    IN  IF s1.raised # NoError THEN s1
        ELSE IF \A i \in 1..NLen(s1.tree_roots[1], <<>>) :
                    s1.tree_roots[1].nodes[<<>>].children[i] # root
             THEN Raise(s1, "ValueError")
             ELSE IF root \notin DOMAIN s1.full_statuses
                  THEN LET r == _retrieve_status(s1, root, status_reply)
                       IN  IF r.self.raised # NoError THEN r.self
                           ELSE _notify_status(
                               [r.self EXCEPT
                                   !.full_statuses = Update(@, root :> r.value)],
                               root)
                  ELSE s1

(***************************************************************************)
(* What the scheduler may answer.  A status tree is built the way the      *)
(* parser builds it: a RootFlowNode, then one add per node in output       *)
(* order.                                                                  *)
(***************************************************************************)
\* The status a family or a root shows for the statuses below it.
Summary(statuses) ==
    IF "ABORTED" \in statuses THEN "ABORTED"
    ELSE IF statuses \subseteq {"COMPLETE"} THEN "COMPLETE"
    ELSE "ACTIVE"

\* The tree of root name: the family a (absent, a task, or a family with
\* the task x) and the task b (absent when sb is "-"), b first when b_first.
StatusTree(name, a, sb, b_first) ==
    LET sa == IF a[1] = "none" THEN {} ELSE {a[2]}
        sB == IF sb = "-" THEN {} ELSE {sb}
        t0 == RootFlowNode(name, Summary(sa \cup sB), 0)
        AddA(t) == IF a[1] = "none" THEN t
                   ELSE LET t1 == add(t, <<>>, "a", a[2])
                        IN  IF a[1] = "fam" THEN add(t1, <<"a">>, "x", a[2]) ELSE t1
        AddB(t) == IF sb = "-" THEN t ELSE add(t, <<>>, "b", sb)
    IN  IF b_first THEN AddA(AddB(t0)) ELSE AddB(AddA(t0))

AKinds ==
    {<<"none">>, <<"leaf", "ABORTED">>, <<"fam", "ABORTED">>, <<"fam", "COMPLETE">>}

BKinds == {"-"} \cup FlowStatus

\* The trees of the root r in the specification SpecTree.
RichTrees ==
    {StatusTree("r", <<"none">>, sb, FALSE) : sb \in BKinds}
        \cup {StatusTree("r", a, sb, FALSE) :
                 a \in AKinds, sb \in {"-", "ABORTED", "COMPLETE"}}
        \cup {StatusTree("r", <<"leaf", "ABORTED">>, sb, TRUE) :
                 sb \in {"ABORTED", "COMPLETE"}}

\* The trees of the root r in the specification Spec.
PoorTrees ==
    {StatusTree("r", <<"none">>, sb, FALSE) : sb \in {"-", "ABORTED", "COMPLETE"}}

\* A root as the plain status command lists it.
ListedRoot(name, status) == RootFlowNode(name, status, 0)

\* The parsed output of "status /suite": the roots, without their trees.
RootLists ==
    {<<>>,
     <<ListedRoot("s", "COMPLETE")>>,
     <<ListedRoot("r", "ABORTED")>>,
     <<ListedRoot("s", "COMPLETE"), ListedRoot("r", "COMPLETE")>>}

\* The session failed: _run_cdp_command returns ok = False.
Failure == [ok |-> FALSE, parsed |-> <<>>, exc |-> NoError]

\* The command succeeded and _parse_status_output returns parsed.
Success(parsed) == [ok |-> TRUE, parsed |-> parsed, exc |-> NoError]

\* The command succeeded and _parse_status_output raises exc on its output.
ParseRaised(exc) == [ok |-> TRUE, parsed |-> <<>>, exc |-> exc]

RootsReplies(lists) == {Failure} \cup {Success(l) : l \in lists}

\* The parsed output of "status /suite" then "status -f /suite/root": the
\* listed roots, the entry of root replaced in place by its tree.
WithTree(list, t) == [i \in 1..Len(list) |-> IF list[i].name = t.name THEN t ELSE list[i]]

StatusReplies(lists, trees) ==
    {Failure} \cup {Success(WithTree(l, t)) : l \in lists, t \in trees}

(***************************************************************************)
(* CdpClient: the session with the cdp subprocess.  A command is a tuple   *)
(* of words, a line of output a tuple of strings.  The client is the       *)
(* record c, with the subprocess it owns: alive, returncode (rc), and      *)
(* stream, the lines printed on stdout and not read yet.  A method maps c  *)
(* and what the subprocess does with the command to its outcome.           *)
(***************************************************************************)
\* CdpClient._END_OF_COMMAND
_END_OF_COMMAND == <<"TFlowClientCdpCmdDone">>

\* The prompt of cdp, as CdpClient._PROMPT_RE finds it.
Prompt == "CDP> "

\* line.rstrip() with the prompts removed: the text of the line.
Strip(line) == line.text

\* The line as the subprocess printed it.
Unstripped(line) ==
    (IF line.prompt THEN <<Prompt>> ELSE <<>>) \o line.text \o <<"\n">>

\* CdpClient._ERR_RE.match(l)
_ERR_RE(l) == l # <<>> /\ l[1] = "# ERR:"

\* CdpClient._LOGIN_RE.match(l): None or the groups user and host.
_LOGIN_RE(l) ==
    IF Len(l) = 3 /\ l[1] = "# MSG:SMS-CLIENT-LOGIN:"
    THEN <<[user |-> l[2], host |-> l[3]]>>
    ELSE None

\* The credentials and the suite of the interface.
credentials == [cdp_path |-> "cdp", host |-> "h", user |-> "u", password |-> "pw"]

suite == "suite"

\* "login {:s} {:s} {:s}".format(host, user, password)
LoginCommand(cred) == <<"login", cred.host, cred.user, cred.password>>

\* A CdpClient whose subprocess has just been started, the object id.
NewClient(id) ==
    [id      |-> id,
     alive   |-> TRUE,
     rc      |-> None,
     stream  |-> <<>>,
     suite   |-> None,
     suites  |-> None,
     idle    |-> 0,
     errored |-> FALSE]

\* The subprocess reads cmd and the echo of the end marker: it prints the
\* lines of r and then the marker, unless it terminates first (r.exits).
Subprocess(c, r) ==
    [c EXCEPT !.stream = @ \o r.lines
                           \o (IF r.exits THEN <<>>
                               ELSE <<[prompt |-> TRUE, text |-> _END_OF_COMMAND]>>),
              !.alive  = ~r.exits,
              !.rc     = IF r.exits THEN <<r.code>> ELSE None]

\* The outcome of a method of the client.
Outcome(c, exc, rc, outputs, written, logs) ==
    [c |-> c, raised |-> exc, rc |-> rc, outputs |-> outputs,
     written |-> written, logs |-> logs]

LogRecord(level, cmd) == [level |-> level, cmd |-> cmd]

\* The command as _raw_send_command logs it.
Masked(cmd) ==
    IF cmd # <<>> /\ cmd[1] = "login"
    THEN Front(cmd) \o <<"password_masked">>
    ELSE cmd

\* The position of the first line of the stream that reads as the end
\* marker, 0 if there is none.
MarkerAt(stream) ==
    LET hits == {i \in 1..Len(stream) : Strip(stream[i]) = _END_OF_COMMAND}
    IN  IF hits = {} THEN 0 ELSE CHOOSE i \in hits : \A j \in hits : i <= j

\* _raw_send_command on a running subprocess: the command and the echo of
\* the end marker are written, the lines are read up to the first that reads
\* as the marker, or to the end of the output if the subprocess terminates.
Exchange(c, cmd, r) ==
    LET c1   == Subprocess(c, r)
        k    == MarkerAt(c1.stream)
        n    == IF k = 0 THEN Len(c1.stream) ELSE k - 1
        read == [i \in 1..n |-> Strip(c1.stream[i])]
        rest == IF k = 0 THEN <<>> ELSE SubSeq(c1.stream, k + 1, Len(c1.stream))
        std_outputs ==
            IF c1.alive THEN read
            ELSE read \o [i \in 1..Len(rest) |-> Unstripped(rest[i])]
        c2   == [c1 EXCEPT !.stream = IF c1.alive THEN rest ELSE <<>>,
                           !.idle = 0]
    IN  Outcome(c2, NoError, c1.rc, std_outputs, TRUE,
                {LogRecord("debug", Masked(cmd))})

\* _raw_send_command as it would be without the check of poll() before the
\* command is written.
_raw_send_command_no_poll(c, cmd, r) ==
    IF ~c.alive
    THEN Outcome([c EXCEPT !.idle = 0], NoError, None, <<>>, TRUE,
                 {LogRecord("debug", Masked(cmd))})
    ELSE Exchange(c, cmd, r)

\* CdpClient._raw_send_command
_raw_send_command(c, cmd, r) ==
    IF ~c.alive
    THEN Outcome(c, "CdpClientError", None, <<>>, FALSE, {})
    ELSE Exchange(c, cmd, r)

\* What send_command makes of the outcome raw of _raw_send_command: it
\* logs the command and raises if failed.
Checked(raw, cmd, failed) ==
    IF raw.raised # NoError THEN raw
    ELSE [raw EXCEPT
             !.logs = IF failed THEN @ \cup {LogRecord("error", cmd)} ELSE @,
             !.raised = IF failed THEN "CdpClientError" ELSE NoError]

\* One of the lines starts with the error prefix.
HasErrorLine(outputs) == \E i \in 1..Len(outputs) : _ERR_RE(outputs[i])

\* The test of send_command as it would be if it looked at the exit code
\* only.
ExitCodeSet(raw) == raw.rc # None

\* The test of send_command on the outcome of _raw_send_command.
Failed(raw) == HasErrorLine(raw.outputs) \/ raw.rc # None

\* send_command once _raw_send_command has given raw.
Sent(raw, cmd) == Checked(raw, cmd, Failed(raw))

\* CdpClient.send_command
send_command(c, cmd, r) == Sent(_raw_send_command(c, cmd, r), cmd)

\* CdpClient.close
close(c) ==
    IF c.alive
    THEN _raw_send_command(c, <<"exit">>, [lines |-> <<>>, exits |-> TRUE, code |-> 0])
    ELSE Outcome(c, NoError, None, <<>>, FALSE, {})

\* The check of the reply to the login command, without the comparison of
\* the user and the host with the credentials.
LoginCheck_any_login(outputs, cred) ==
    IF outputs = <<>> THEN "IndexError"
    ELSE IF _LOGIN_RE(Last(outputs)) # None THEN NoError
    ELSE "CdpClientLoginError"

\* The check of the reply to the login command in CdpClient.__init__: the
\* exception raised, if any.
LoginCheck(outputs, cred) ==
    IF outputs = <<>> THEN "IndexError"
    ELSE LET login_m == _LOGIN_RE(Last(outputs))
         IN  IF login_m # None
                /\ login_m[1].host = cred.host
                /\ login_m[1].user = cred.user
             THEN NoError
             ELSE "CdpClientLoginError"

\* CdpClient.suites, from the output of the suites command.
ParseSuites(outputs) ==
    LET F[i \in 0..Len(outputs)] ==
            IF i = 0 THEN [started |-> FALSE, ended |-> FALSE, found |-> {}]
            ELSE LET l == outputs[i]
                     p == F[i - 1]
                 IN  IF p.ended THEN p
                     ELSE IF p.started
                     THEN IF l = <<"Suites you are following">>
                          THEN [p EXCEPT !.ended = TRUE]
                          ELSE [p EXCEPT !.found = @ \cup {l[j] : j \in 1..Len(l)}]
                     ELSE [p EXCEPT !.started =
                              l # <<>> /\ l[1] = "Suites defined in the SMS"]
    IN  F[Len(outputs)].found

\* The session errors: CdpClientError and its subclasses.
SessionErrors == {"CdpClientError", "CdpClientLoginError", "CdpClientUnknownSuite"}

(***************************************************************************)
(* What the subprocess may do with a command.                              *)
(***************************************************************************)
Out(text) == [prompt |-> FALSE, text |-> text]

Reply(lines, exits) == [lines |-> lines, exits |-> exits, code |-> 1]

\* To a command of the interface: nothing, output, an error line, a line
\* that reads as the end marker.
CommandLines ==
    {<<>>,
     <<[prompt |-> TRUE, text |-> <<"out">>]>>,
     <<Out(<<"# ERR:">>)>>,
     <<Out(_END_OF_COMMAND), Out(<<"out">>)>>}

CommandReplies == {Reply(l, x) : l \in CommandLines, x \in BOOLEAN}

LoginLine(user, host) == Out(<<"# MSG:SMS-CLIENT-LOGIN:", user, host>>)

\* To the login command.
LoginReplies ==
    {Reply(<<LoginLine("u", "h")>>, FALSE),
     Reply(<<LoginLine("v", "h")>>, FALSE),
     Reply(<<LoginLine("u", "g")>>, FALSE),
     Reply(<<Out(<<"out">>)>>, FALSE),
     Reply(<<>>, FALSE),
     Reply(<<Out(<<"# ERR:">>)>>, FALSE),
     Reply(<<>>, TRUE)}

SuitesLines(names) ==
    <<Out(<<"Suites defined in the SMS", "h">>), Out(names),
      Out(<<"Suites you are following">>), Out(<<"other">>)>>

\* To the suites command.
SuitesReplies ==
    {Reply(SuitesLines(<<"suite", "s2">>), FALSE),
     Reply(SuitesLines(<<"s2">>), FALSE),
     Reply(<<Out(<<"# ERR:">>)>>, FALSE)}

\* To the register command.
RegisterReplies == {Reply(<<>>, FALSE), Reply(<<Out(<<"# ERR:">>)>>, FALSE)}

(***************************************************************************)
(* The state machine.                                                      *)
(***************************************************************************)
MaxAge == min_refresh_interval + 1

Self ==
    [tree_roots    |-> tree_roots,
     full_statuses |-> full_statuses,
     emitted       |-> <<>>,
     fetched       |-> <<>>,
     raised        |-> NoError]

Caches == [tree_roots |-> tree_roots, full_statuses |-> full_statuses]

NoCaches == [tree_roots |-> None, full_statuses |-> EmptyDict]

Call(op, root, force) == [op |-> op, root |-> root, force |-> force]

\* The locals of _run_cdp_command: the commands still to send, the outputs
\* got, the CdpClient under construction, the reply the subprocess is about
\* to give to the command written.
Frame(todo, outputs, building, reply) ==
    [todo |-> todo, outputs |-> outputs, building |-> building, reply |-> reply]

NoFrame == Frame(<<>>, <<>>, None, None)

\* The history of an operation: the session held when it started, the
\* commands written (with the client they were written to), the log records
\* and the send_command calls that have returned, and the outcome of
\* _run_cdp_command (None while it runs).
Hist(start, sent, log, sends, rc) ==
    [start |-> start, sent |-> sent, log |-> log, sends |-> sends, rc |-> rc]

NoHist == Hist(None, <<>>, {}, <<>>, None)

\* No call is under way: the outcome of the last one has been handled.
Idle == Call("idle", "", FALSE)

\* The interface after a method call.
Return(s, c) ==
    /\ call = Idle
    /\ tree_roots' = s.tree_roots
    /\ full_statuses' = s.full_statuses
    /\ emitted' = s.emitted
    /\ fetched' = s.fetched
    /\ raised' = s.raised
    /\ call' = c
    /\ pre' = Caches
    /\ UNCHANGED <<cdpVars, libVars>>

\* A step of the user interface or of the clock, between two calls.
Outside(tr, fs) ==
    /\ call = Idle
    /\ tree_roots' = tr
    /\ full_statuses' = fs
    /\ UNCHANGED <<emitted, fetched, raised, call, pre>>
    /\ UNCHANGED <<cdpVars, libVars>>

\* The caller has handled the outcome of the call (value or exception) and
\* the observers their events.
Handled ==
    /\ call # Idle
    /\ emitted' = <<>>
    /\ fetched' = <<>>
    /\ raised' = NoError
    /\ call' = Idle
    /\ pre' = NoCaches
    /\ UNCHANGED <<tree_roots, full_statuses>>
    /\ UNCHANGED <<cdpVars, libVars>>

Init ==
    /\ tree_roots = None
    /\ full_statuses = EmptyDict
    /\ emitted = <<>>
    /\ fetched = <<>>
    /\ raised = NoError
    /\ call = Idle
    /\ pre = NoCaches
    /\ cdp_client_obj = None
    /\ lock = "free"
    /\ rlock = "free"
    /\ pc = [main |-> "idle", hb |-> "idle"]
    /\ frame = NoFrame
    /\ hist = NoHist
    /\ leaked = FALSE
    /\ info_list = <<>>
    /\ last_output = <<>>
    /\ last_save = None
    /\ flow_node = None
    /\ flow_other = None
    /\ add_log = <<>>
    /\ observers = EmptyDict
    /\ notified = EmptyDict
    /\ node_before = None
    /\ flag_call = None
    /\ smsrc = None
    /\ parsed_status = None

Older(t) == [t EXCEPT !.age = IF @ < MaxAge THEN @ + 1 ELSE @]

\* One second passes.
Tick ==
    /\ \/ tree_roots # None /\ tree_roots[1].age < MaxAge
       \/ \E r \in DOMAIN full_statuses : full_statuses[r].age < MaxAge
    /\ Outside(IF tree_roots = None THEN None ELSE <<Older(tree_roots[1])>>,
            [r \in DOMAIN full_statuses |-> Older(full_statuses[r])])

\* flow.tree_roots
TreeRoots(roots_replies) ==
    \E reply \in roots_replies :
        Return(get_tree_roots(Self, reply), Call("tree_roots", "", FALSE))

\* flow.refresh_tree_roots(force)
RefreshTreeRoots(roots_replies) ==
    \E force \in BOOLEAN, reply \in roots_replies :
        Return(refresh_tree_roots(Self, force, reply),
               Call("refresh_tree_roots", "", force))

\* flow.full_status(root)
FullStatus(root, roots_replies, status_replies) ==
    \E r1 \in roots_replies, r2 \in status_replies :
        Return(full_status(Self, root, r1, r2), Call("full_status", root, FALSE))

\* flow.refresh(root, force)
Refresh(root, roots_replies, status_replies) ==
    \E force \in BOOLEAN, r1 \in status_replies, r2 \in roots_replies :
        Return(refresh(Self, root, force, r1, r2), Call("refresh", root, force))

\* node.flagged = value, on a node of a cached tree
SetFlagged(targets) ==
    \E r \in DOMAIN full_statuses, a \in targets, value \in BOOLEAN :
        /\ a \in DOMAIN full_statuses[r].nodes
        /\ full_statuses[r].nodes[a].flagged # value
        /\ Outside(tree_roots,
                [full_statuses EXCEPT ![r] = set_flagged(@, a, value)])

\* node.user_expanded = value
SetUserExpanded(targets) ==
    \E r \in DOMAIN full_statuses, a \in targets, value \in BOOLEAN :
        /\ a \in DOMAIN full_statuses[r].nodes
        /\ full_statuses[r].nodes[a].user_expanded
              # <<value, full_statuses[r].nodes[a].status>>
        /\ Outside(tree_roots,
                [full_statuses EXCEPT ![r] = set_user_expanded(@, a, value)])

\* del node.user_expanded
DelUserExpanded(targets) ==
    \E r \in DOMAIN full_statuses, a \in targets :
        /\ a \in DOMAIN full_statuses[r].nodes
        /\ full_statuses[r].nodes[a].user_expanded # None
        /\ Outside(tree_roots,
                [full_statuses EXCEPT ![r] = del_user_expanded(@, a)])

\* root_node.focused = node, for a node of that tree
SetFocused(targets) ==
    \E r \in DOMAIN full_statuses, a \in targets :
        /\ a \in DOMAIN full_statuses[r].nodes
        /\ full_statuses[r].focused # <<full_statuses[r].oid, a>>
        /\ Outside(tree_roots,
                [full_statuses EXCEPT ![r] = set_focused(@, @.oid, a)])

(***************************************************************************)
(* Spec: the facade with its clock and a changing list of roots, over      *)
(* small trees of the root r.                                              *)
(***************************************************************************)
PoorRootsReplies == RootsReplies(RootLists)

PoorStatusReplies == StatusReplies(RootLists, PoorTrees)

Next ==
    \/ Tick
    \/ TreeRoots(PoorRootsReplies)
    \/ RefreshTreeRoots(PoorRootsReplies)
    \/ FullStatus("r", PoorRootsReplies, PoorStatusReplies)
    \/ Refresh("r", PoorRootsReplies, PoorStatusReplies)
    \/ SetFlagged({<<"b">>})
    \/ SetUserExpanded({<<"b">>})
    \/ SetFocused({<<>>})
    \/ Handled

Spec == Init /\ [][Next]_vars

(***************************************************************************)
(* SpecTree: the refreshes of one root over the rich trees, the clock      *)
(* stopped and the list of roots constant.                                 *)
(***************************************************************************)
OneList == {<<ListedRoot("r", "ACTIVE")>>}

RichRootsReplies == RootsReplies(OneList)

RichStatusReplies == StatusReplies(OneList, RichTrees)

FlagTargets == {<<>>, <<"a", "x">>, <<"b">>}

OverrideTargets == {<<"b">>}

FocusTargets == {<<"a", "x">>, <<"b">>}

NextTree ==
    \/ Refresh("r", RichRootsReplies, RichStatusReplies)
    \/ SetFlagged(FlagTargets)
    \/ SetUserExpanded(OverrideTargets)
    \/ DelUserExpanded(OverrideTargets)
    \/ SetFocused(FocusTargets)
    \/ Handled

SpecTree == Init /\ [][NextTree]_vars

(***************************************************************************)
(* SpecCdp: CdpInterface over its session.  The command thread runs one    *)
(* operation at a time through _run_cdp_command, a step per command        *)
(* written and per response read; the heartbeat thread runs                *)
(* process_heartbeat.                                                      *)
(***************************************************************************)
cdp_timeout == 1

MaxIdle == cdp_timeout + 1

\* The most lines of the subprocess left unread after a command.
MaxPending == 2

ControlOps ==
    {"rerun", "execute", "suspend", "resume", "complete", "requeue", "cancel"}

\* The command of do_<op>.
ControlCommand(op) ==
    CASE op = "rerun" -> "force queued"
      [] op = "execute" -> "run -fc"
      [] op = "suspend" -> "suspend"
      [] op = "resume" -> "resume"
      [] op = "complete" -> "force -r complete"
      [] op = "requeue" -> "requeue -f"
      [] op = "cancel" -> "cancel -y"

\* _command_path_expand without its radical: the paths as they were given.
_command_path_expand_relative(root_node_full_path, paths, with_suite) ==
    [i \in 1..Len(paths) |-> RStrip(JoinStr(Split(paths[i])))]

\* FlowInterface._command_path_expand, root_node_full_path being
\* root_node.full_path
_command_path_expand(root_node_full_path, paths, with_suite) ==
    LET radical == (IF with_suite THEN <<Str(suite)>> ELSE <<>>)
                      \o (IF root_node_full_path # <<>>
                          THEN Split(root_node_full_path)
                          ELSE <<>>)
    IN  [i \in 1..Len(paths) |-> RStrip(JoinStr(radical \o Split(paths[i])))]

\* The paths given to a control operation on the root r: a task two levels
\* down and a family.
ControlPaths == <<<<"a", Sep, "x">>, <<"b">>>>

\* "/" + p for the paths p that _command_path_expand gives for them.
ExpandedPaths ==
    LET expanded == _command_path_expand(Str("r"), ControlPaths, TRUE)
    IN  [i \in 1..Len(expanded) |-> <<Sep>> \o expanded[i]]

\* The commands _run_cdp_command sends for a control operation.
ControlCommands(op) ==
    [i \in 1..Len(ExpandedPaths) |-> <<ControlCommand(op), ExpandedPaths[i]>>]

\* The command of _retrieve_tree_roots.
RootsCommands ==
    <<<<"status", <<Sep, Sep>> \o _command_path_expand(<<>>, <<<<>>>>, TRUE)[1]>>>>

\* What send_command did: the command, whether the subprocess was dead or
\* had had an error before, what the subprocess did, and what came back.
SendRecord(c, cmd, r, res) ==
    [cmd |-> cmd, dead |-> ~c.alive, errored |-> c.errored, reply |-> r,
     raised |-> res.raised, outputs |-> res.outputs, rc |-> res.rc]

Recorded(h, c, cmd, r, res) ==
    [h EXCEPT !.log   = @ \cup res.logs,
              !.sends = Append(@, SendRecord(c, cmd, r, res)),
              !.sent  = IF res.written THEN Append(@, cmd[1]) ELSE @]

\* The command thread goes on inside _run_cdp_command.
Goes(to, f, h, obj, rl) ==
    /\ pc' = [pc EXCEPT !.main = to]
    /\ frame' = f
    /\ hist' = h
    /\ cdp_client_obj' = obj
    /\ rlock' = rl
    /\ UNCHANGED libVars
    /\ UNCHANGED <<lock, leaked, tree_roots, full_statuses, emitted, fetched,
                   call, raised, pre>>

\* _run_cdp_command as it would be with acquire and release calls instead of
\* the with block: an exception that escapes leaves the lock taken.
Ends_keeping_lock(f, h, obj, ok, exc) ==
    /\ pc' = [pc EXCEPT !.main = "done"]
    /\ leaked' = (leaked \/ (f.building # None /\ f.building[1].alive))
    /\ lock' = IF exc = NoError THEN "free" ELSE lock
    /\ rlock' = "free"
    /\ frame' = [f EXCEPT !.building = None, !.reply = None]
    /\ hist' = [h EXCEPT !.rc = IF exc = NoError THEN <<ok>> ELSE None]
    /\ cdp_client_obj' = obj
    /\ UNCHANGED libVars
    /\ UNCHANGED <<call, pre>>
    /\ IF call.op = "refresh_tree_roots" /\ exc = NoError
       THEN \E parsed \in IF ok THEN {<<>>, <<ListedRoot("r", "ACTIVE")>>} ELSE {<<>>} :
                \E s \in {refresh_tree_roots(
                               Self, TRUE, IF ok THEN Success(parsed) ELSE Failure)} :
                    /\ tree_roots' = s.tree_roots
                    /\ full_statuses' = s.full_statuses
                    /\ emitted' = s.emitted
                    /\ fetched' = s.fetched
                    /\ raised' = s.raised
       ELSE /\ raised' = exc
            /\ UNCHANGED <<tree_roots, full_statuses, emitted, fetched>>

\* _run_cdp_command is over: it returns (outputs, ok), or exc escapes from
\* it; the operation that called it ends.  refresh_tree_roots goes on with
\* what the parser reads from the outputs.  A client that __init__ was
\* still building (f.building) is dropped with the exception; nothing ends
\* its subprocess.
Ends(f, h, obj, ok, exc) ==
    /\ pc' = [pc EXCEPT !.main = "done"]
    /\ leaked' = (leaked \/ (f.building # None /\ f.building[1].alive))
    /\ lock' = "free"
    /\ rlock' = "free"
    /\ frame' = [f EXCEPT !.building = None, !.reply = None]
    /\ hist' = [h EXCEPT !.rc = IF exc = NoError THEN <<ok>> ELSE None]
    /\ cdp_client_obj' = obj
    /\ UNCHANGED libVars
    /\ UNCHANGED <<call, pre>>
    /\ IF call.op = "refresh_tree_roots" /\ exc = NoError
       THEN \E parsed \in IF ok THEN {<<>>, <<ListedRoot("r", "ACTIVE")>>} ELSE {<<>>} :
                \E s \in {refresh_tree_roots(
                               Self, TRUE, IF ok THEN Success(parsed) ELSE Failure)} :
                    /\ tree_roots' = s.tree_roots
                    /\ full_statuses' = s.full_statuses
                    /\ emitted' = s.emitted
                    /\ fetched' = s.fetched
                    /\ raised' = s.raised
       ELSE /\ raised' = exc
            /\ UNCHANGED <<tree_roots, full_statuses, emitted, fetched>>

\* _run_cdp_command as it would be without its except clause.
Caught_propagating(f, h, obj) == Ends(f, h, obj, FALSE, "CdpClientError")

\* The except clause of _run_cdp_command.
Caught(f, h, obj) ==
    Ends(f, [h EXCEPT !.log = @ \cup {LogRecord("error", <<>>)}], obj, FALSE, NoError)

\* The session error exc has been raised on the client held by the
\* interface.
Errored(obj) == <<[obj[1] EXCEPT !.errored = TRUE]>>

\* An operation starts: _run_cdp_command takes the lock.
StartOp(op, todo) ==
    /\ pc.main = "idle"
    /\ call = Idle
    /\ lock = "free"
    /\ lock' = "main"
    /\ pc' = [pc EXCEPT !.main = "next"]
    /\ frame' = Frame(todo, <<>>, None, None)
    /\ hist' = Hist(cdp_client_obj, <<>>, {}, <<>>, None)
    /\ call' = Call(op, "", op = "refresh_tree_roots")
    /\ pre' = Caches
    /\ emitted' = <<>>
    /\ fetched' = <<>>
    /\ raised' = NoError
    /\ UNCHANGED libVars
    /\ UNCHANGED <<tree_roots, full_statuses, cdp_client_obj, rlock, leaked>>

\* flow.command_gateway(op, root_node, paths)
CommandGateway == \E op \in ControlOps : StartOp(op, ControlCommands(op))

\* flow.refresh_tree_roots(force=True)
ForcedRefreshTreeRoots == StartOp("refresh_tree_roots", RootsCommands)

\* cdp_client as it would be if it created a client at each access.
Spawn_at_each_access ==
    /\ pc.main = "next"
    /\ frame.todo # <<>>
    /\ Goes("login_w", [frame EXCEPT !.building = <<NewClient(0)>>],
            [hist EXCEPT !.sent = Append(@, "spawn")], None, "main")

\* CdpInterface.cdp_client with no client held: CdpClient.__init__ starts
\* the subprocess, or fails to.
Spawn ==
    /\ pc.main = "next"
    /\ frame.todo # <<>>
    /\ cdp_client_obj = None
    /\ \E started \in BOOLEAN :
          IF started
          THEN Goes("login_w", [frame EXCEPT !.building = <<NewClient(0)>>],
                    [hist EXCEPT !.sent = Append(@, "spawn")], None, "main")
          ELSE Caught(frame, [hist EXCEPT !.log = @ \cup {LogRecord("error", <<>>)}],
                      None)

\* The frame when __init__ ends on an exception: the client it was building,
\* as the last exchange has left it.
Building(c) == [frame EXCEPT !.building = <<c>>]

\* The login command is written.
LoginWrite ==
    /\ pc.main = "login_w"
    /\ \E r \in LoginReplies :
          Goes("login_r", [frame EXCEPT !.reply = <<r>>], hist, None, rlock)

\* The reply to the login command is read and checked.
LoginRead ==
    /\ pc.main = "login_r"
    /\ \E c \in {frame.building[1]}, cmd \in {LoginCommand(credentials)} :
       \E res \in {send_command(c, cmd, frame.reply[1])} :
       \E h \in {Recorded(hist, c, cmd, frame.reply[1], res)},
          chk \in {LoginCheck(res.outputs, credentials)} :
           IF res.raised # NoError THEN Caught(Building(res.c), h, None)
           ELSE IF chk = "CdpClientLoginError" THEN Caught(Building(res.c), h, None)
           ELSE IF chk # NoError THEN Ends(Building(res.c), h, None, FALSE, chk)
           ELSE Goes("suites_w", [frame EXCEPT !.building = <<res.c>>, !.reply = None],
                     h, None, "free")

\* CdpClient.register: the suites command is written.
SuitesWrite ==
    /\ pc.main = "suites_w"
    /\ rlock = "free"
    /\ \E r \in SuitesReplies :
          Goes("suites_r", [frame EXCEPT !.reply = <<r>>], hist, None, "main")

\* The reply to the suites command is read; the suite is looked for in it.
SuitesRead ==
    /\ pc.main = "suites_r"
    /\ \E c \in {[frame.building[1] EXCEPT !.suite = <<suite>>]} :
       \E res \in {send_command(c, <<"suites">>, frame.reply[1])} :
       \E h \in {Recorded(hist, c, <<"suites">>, frame.reply[1], res)},
          suites \in {ParseSuites(res.outputs)} :
           IF res.raised # NoError THEN Caught(Building(res.c), h, None)
           ELSE IF suite \notin suites
           THEN Caught(Building(res.c),
                       [h EXCEPT !.log = @ \cup {LogRecord("error", <<>>)}], None)
           ELSE Goes("reg_w",
                     [frame EXCEPT !.building = <<[res.c EXCEPT !.suites = <<suites>>]>>,
                                   !.reply = None],
                     h, None, "free")

\* The register command is written.
RegisterWrite ==
    /\ pc.main = "reg_w"
    /\ rlock = "free"
    /\ \E r \in RegisterReplies :
          Goes("reg_r", [frame EXCEPT !.reply = <<r>>], hist, None, "main")

\* The reply to the register command is read; the interface holds the new
\* client.
RegisterRead ==
    /\ pc.main = "reg_r"
    /\ \E c \in {frame.building[1]}, cmd \in {<<"register", suite>>} :
       \E res \in {send_command(c, cmd, frame.reply[1])} :
       \E h \in {Recorded(hist, c, cmd, frame.reply[1], res)} :
           IF res.raised # NoError THEN Caught(Building(res.c), h, None)
           ELSE Goes("next", [frame EXCEPT !.building = None, !.reply = None],
                     h, <<res.c>>, "free")

\* The next command of the operation is written to the client held, unless
\* its subprocess is found dead.
CommandWrite ==
    /\ pc.main = "next"
    /\ frame.todo # <<>>
    /\ cdp_client_obj # None
    /\ rlock = "free"
    /\ IF cdp_client_obj[1].alive
       THEN \E r \in CommandReplies :
                /\ Len(Exchange(cdp_client_obj[1], frame.todo[1], r).c.stream)
                      <= MaxPending
                /\ Goes("cmd_r", [frame EXCEPT !.reply = <<r>>], hist, cdp_client_obj,
                        "main")
       ELSE \E c \in {cdp_client_obj[1]}, r \in {Reply(<<>>, FALSE)} :
            \E res \in {send_command(c, frame.todo[1], r)} :
                Caught(frame, Recorded(hist, c, frame.todo[1], r, res), Errored(<<res.c>>))

\* The response to the command is read.
CommandRead ==
    /\ pc.main = "cmd_r"
    /\ \E c \in {cdp_client_obj[1]}, cmd \in {frame.todo[1]} :
       \E res \in {send_command(c, cmd, frame.reply[1])} :
       \E h \in {Recorded(hist, c, cmd, frame.reply[1], res)},
          f \in {[frame EXCEPT !.todo = Tail(@), !.outputs = @ \o res.outputs,
                               !.reply = None]} :
           IF res.raised # NoError THEN Caught(frame, h, Errored(<<res.c>>))
           ELSE IF f.todo = <<>> THEN Ends(f, h, <<res.c>>, TRUE, NoError)
           ELSE Goes("next", f, h, <<res.c>>, "free")

\* The caller has got the result of the operation, or its exception.
Returns ==
    /\ pc.main = "done"
    /\ pc' = [pc EXCEPT !.main = "idle"]
    /\ frame' = NoFrame
    /\ hist' = NoHist
    /\ emitted' = <<>>
    /\ fetched' = <<>>
    /\ raised' = NoError
    /\ call' = Idle
    /\ pre' = NoCaches
    /\ UNCHANGED libVars
    /\ UNCHANGED <<tree_roots, full_statuses, cdp_client_obj, lock, rlock, leaked>>

\* A step of the heartbeat thread.
Heartbeat(to, obj, lk, rl, h) ==
    /\ pc' = [pc EXCEPT !.hb = to]
    /\ cdp_client_obj' = obj
    /\ lock' = lk
    /\ rlock' = rl
    /\ hist' = h
    /\ UNCHANGED libVars
    /\ UNCHANGED <<frame, leaked, tree_roots, full_statuses, emitted, fetched,
                   call, raised, pre>>

\* process_heartbeat: a client is held.
HeartbeatStart ==
    /\ pc.hb = "idle"
    /\ cdp_client_obj # None
    /\ Heartbeat("lock", cdp_client_obj, lock, rlock, hist)

\* process_heartbeat as it would be without the lock of the interface.
HeartbeatLock_without_lock ==
    /\ pc.hb = "lock"
    /\ Heartbeat("check", cdp_client_obj, lock, rlock, hist)

\* process_heartbeat takes the lock.
HeartbeatLock ==
    /\ pc.hb = "lock"
    /\ lock = "free"
    /\ Heartbeat("check", cdp_client_obj, "hb", rlock, hist)

\* process_heartbeat compares the idle time with the timeout; close() finds
\* the subprocess running and writes exit, or finds it dead.
HeartbeatCheck ==
    /\ pc.hb = "check"
    /\ IF cdp_client_obj = None
       THEN Heartbeat("idle", None, "free", rlock, hist)
       ELSE IF cdp_client_obj[1].idle > cdp_timeout
       THEN IF cdp_client_obj[1].alive
            THEN rlock = "free" /\ Heartbeat("exit_r", cdp_client_obj, lock, "hb", hist)
            ELSE Heartbeat("idle", None, "free", rlock, hist)
       ELSE Heartbeat("idle", cdp_client_obj, "free", rlock, hist)

\* close() has read the end of the output of the subprocess; the interface
\* drops the client.
HeartbeatClosed ==
    /\ pc.hb = "exit_r"
    /\ \E res \in {close(cdp_client_obj[1])} :
           Heartbeat("idle", None, "free", "free",
                     [hist EXCEPT !.log = @ \cup res.logs])

\* One second passes without a command.
Idles ==
    /\ pc.main = "idle"
    /\ cdp_client_obj # None
    /\ cdp_client_obj[1].idle < MaxIdle
    /\ cdp_client_obj' = <<[cdp_client_obj[1] EXCEPT !.idle = @ + 1]>>
    /\ UNCHANGED libVars
    /\ UNCHANGED <<lock, rlock, pc, frame, hist, leaked, tree_roots,
                   full_statuses, emitted, fetched, call, raised, pre>>

\* The subprocesses that no client owns end by themselves.
OrphanExits ==
    /\ leaked
    /\ leaked' = FALSE
    /\ UNCHANGED libVars
    /\ UNCHANGED <<cdp_client_obj, lock, rlock, pc, frame, hist, tree_roots,
                   full_statuses, emitted, fetched, call, raised, pre>>

NextCdp ==
    \/ CommandGateway
    \/ ForcedRefreshTreeRoots
    \/ Spawn
    \/ LoginWrite
    \/ LoginRead
    \/ SuitesWrite
    \/ SuitesRead
    \/ RegisterWrite
    \/ RegisterRead
    \/ CommandWrite
    \/ CommandRead
    \/ Returns
    \/ HeartbeatStart
    \/ HeartbeatLock
    \/ HeartbeatCheck
    \/ HeartbeatClosed
    \/ Idles
    \/ OrphanExits

SpecCdp == Init /\ [][NextCdp]_vars

(***************************************************************************)
(* Properties of the migration of the user's state on refresh, checked on  *)
(* SpecTree.  pre holds the caches as they were when the call under way    *)
(* started.                                                                *)
(***************************************************************************)
\* The call that has just returned is refresh(root, ..) and it has replaced
\* the cached tree of root by a newly created object.
Replaced ==
    /\ call.op = "refresh"
    /\ call.root \in DOMAIN pre.full_statuses
    /\ full_statuses[call.root].oid # pre.full_statuses[call.root].oid

OldTree == pre.full_statuses[call.root]

NewTree == full_statuses[call.root]

\* The nodes the two trees have in common: the paths of the old tree that
\* still resolve in the new one.
Kept == DOMAIN OldTree.nodes \cap DOMAIN NewTree.nodes

FlaggedNodes(t) == {a \in DOMAIN t.nodes : t.nodes[a].flagged}

\* The leaves that need attention.
BlinkNodes(t) ==
    {a \in DOMAIN t.nodes :
        t.nodes[a].status = "ABORTED" /\ t.nodes[a].children = <<>>}

\* C1: when a refresh replaces the cached tree, the flagged nodes of the new
\* tree are exactly the flagged nodes of the old tree whose path still
\* resolves in the new tree.
C1_FlaggedCarried ==
    Replaced => FlaggedNodes(NewTree) = FlaggedNodes(OldTree) \cap DOMAIN NewTree.nodes

\* A replacement that keeps one flagged node below the root and loses
\* another.
C1_Witness ==
    /\ Replaced
    /\ \E a \in FlaggedNodes(OldTree) : a \notin DOMAIN NewTree.nodes
    /\ \E a \in FlaggedNodes(OldTree) \cap FlaggedNodes(NewTree) : a # <<>>

\* The nodes kept that the user had folded in the old tree.
Folded ==
    {a \in Kept : /\ OldTree.nodes[a].user_expanded # None
                  /\ ~OldTree.nodes[a].user_expanded[1]}

C3_UnfoldSticky ==
    call.op = "refresh" /\ call.root \in DOMAIN pre.full_statuses
    => \A a \in Kept :
           OldTree.nodes[a].user_expanded # None
               /\ OldTree.nodes[a].user_expanded[1]
           => /\ NewTree.nodes[a].user_expanded # None
              /\ NewTree.nodes[a].user_expanded[1]

\* An unfolded node is still unfolded in a new tree where its status has
\* changed to one that is expanded by default.
C3_Witness ==
    /\ Replaced
    /\ \E a \in Kept :
          /\ OldTree.nodes[a].user_expanded # None
          /\ OldTree.nodes[a].user_expanded[1]
          /\ NewTree.nodes[a].status # OldTree.nodes[a].status
          /\ NewTree.nodes[a].status \in {"ACTIVE", "ABORTED", "SUBMITTED"}
          /\ NewTree.nodes[a].user_expanded = <<TRUE, NewTree.nodes[a].status>>

\* C4: when the new tree has a blinking leaf the old tree had not, the new
\* tree has no focus.
C4_FocusResetOnDeterioration ==
    Replaced /\ ~(BlinkNodes(NewTree) \subseteq BlinkNodes(OldTree))
    => NewTree.focused = None

\* The focus is dropped although the focused node is still there.
C4_Witness ==
    /\ Replaced
    /\ ~(BlinkNodes(NewTree) \subseteq BlinkNodes(OldTree))
    /\ OldTree.focused # None
    /\ OldTree.focused[2] \in DOMAIN NewTree.nodes
    /\ NewTree.focused = None

\* C5: when every blinking leaf of the new tree was one of the old tree, the
\* focus of the new tree is its own node at the path that had the focus, if
\* there is one, and unset otherwise; the focus of a cached tree is always a
\* node of that very tree.
C5_FocusFollowsPath ==
    /\ Replaced /\ BlinkNodes(NewTree) \subseteq BlinkNodes(OldTree)
       => NewTree.focused =
             IF OldTree.focused[2] \in DOMAIN NewTree.nodes
             THEN <<NewTree.oid, OldTree.focused[2]>>
             ELSE None
    /\ \A r \in DOMAIN full_statuses :
           full_statuses[r].focused # None
           => /\ full_statuses[r].focused[1] = full_statuses[r].oid
              /\ full_statuses[r].focused[2] \in DOMAIN full_statuses[r].nodes

\* The focus follows its path to the new tree, below the root.
C5_Witness ==
    /\ Replaced
    /\ BlinkNodes(NewTree) \subseteq BlinkNodes(OldTree)
    /\ OldTree.focused[2] # <<>>
    /\ NewTree.focused = <<NewTree.oid, OldTree.focused[2]>>
    /\ \E a \in Kept : NewTree.nodes[a].status # OldTree.nodes[a].status

(***************************************************************************)
(* Properties of the caches of FlowInterface, checked on Spec.  fetched    *)
(* holds the commands the call under way has sent and what came back,      *)
(* emitted the events it has sent to the observers.                        *)
(***************************************************************************)
\* Same name, same nodes, same statuses, same children in the same order.
StructEq(t1, t2) ==
    /\ t1.name = t2.name
    /\ DOMAIN t1.nodes = DOMAIN t2.nodes
    /\ \A a \in DOMAIN t1.nodes :
          /\ t1.nodes[a].status = t2.nodes[a].status
          /\ t1.nodes[a].children = t2.nodes[a].children

\* The call under way has fetched the status of its root.
StatusFetched ==
    \E i \in 1..Len(fetched) :
        fetched[i].cmd = "status" /\ fetched[i].root = call.root

\* The call under way has got a roots list from the scheduler.
RootsFetched == \E i \in 1..Len(fetched) : fetched[i].roots # None

\* The call under way has fetched a tree of its root equal to the cached one.
SameStatusFetched ==
    /\ call.root \in DOMAIN pre.full_statuses
    /\ \E i \in 1..Len(fetched) :
          /\ fetched[i].cmd = "status"
          /\ fetched[i].root = call.root
          /\ StructEq(fetched[i].value[1], pre.full_statuses[call.root])

\* The call under way has fetched a roots list equal to the cached one.
SameRootsFetched ==
    /\ pre.tree_roots # None
    /\ \E i \in 1..Len(fetched) :
          /\ fetched[i].roots # None
          /\ StructEq(fetched[i].roots[1], pre.tree_roots[1])

Emitted(kind) == \E i \in 1..Len(emitted) : emitted[i][1] = kind

\* C6: a refresh that fetches a tree equal to the cached one (the status of
\* a root, or the roots list) keeps the cached object, with its flagged
\* nodes, overrides and focus, resets its age and emits no change event.
C6_EqualTreeKept ==
    /\ call.op = "refresh" /\ SameStatusFetched
       => /\ full_statuses[call.root] =
                [pre.full_statuses[call.root] EXCEPT !.age = 0]
          /\ ~Emitted("full_status")
    /\ call.op \in {"refresh", "refresh_tree_roots"} /\ SameRootsFetched
       => /\ tree_roots = <<[pre.tree_roots[1] EXCEPT !.age = 0]>>
          /\ ~Emitted("tree_roots")

\* An aged tree with a flagged node, an override and a focus is touched, and
\* so is the aged roots list.
C6_Witness ==
    /\ call.op = "refresh"
    /\ SameStatusFetched
    /\ SameRootsFetched
    /\ pre.full_statuses[call.root].age > 0
    /\ pre.tree_roots[1].age > 0
    /\ pre.full_statuses[call.root].focused # None
    /\ \E a \in DOMAIN pre.full_statuses[call.root].nodes :
          /\ pre.full_statuses[call.root].nodes[a].flagged
          /\ pre.full_statuses[call.root].nodes[a].user_expanded # None
    /\ full_statuses[call.root].age = 0
    /\ tree_roots[1].age = 0

\* The status of the root of a refresh is due.
StatusDue ==
    \/ call.force
    \/ call.root \notin DOMAIN pre.full_statuses
    \/ pre.full_statuses[call.root].age >= min_refresh_interval

\* C7: refresh(path, force) fetches the status of path if and only if force
\* is set, or path has no cached tree, or the age of the cached tree has
\* reached min_refresh_interval; otherwise the cached tree and its age are
\* unchanged.
C7_StatusRefreshRule ==
    call.op = "refresh"
    => /\ StatusFetched <=> StatusDue
       /\ ~StatusDue => full_statuses[call.root] = pre.full_statuses[call.root]

\* An unforced refresh fetches a cached tree whose age is exactly
\* min_refresh_interval.
C7_Witness ==
    /\ call.op = "refresh"
    /\ ~call.force
    /\ call.root \in DOMAIN pre.full_statuses
    /\ pre.full_statuses[call.root].age = min_refresh_interval
    /\ StatusFetched

\* The roots list is due, by the rule of the status.
RootsDue ==
    \/ call.force
    \/ pre.tree_roots = None
    \/ pre.tree_roots[1].age >= min_refresh_interval

\* C8: a refresh that returns has got a new roots list from the scheduler
\* when the roots list is due by the rule of the status (force, no cache, or
\* age at least min_refresh_interval), and has not asked for one otherwise.
C8_RootsRefreshRule ==
    call.op = "refresh" /\ raised = NoError
    => /\ RootsDue => RootsFetched
       /\ ~RootsDue => \A i \in 1..Len(fetched) : fetched[i].cmd # "tree_roots"

\* The roots full_status checks its root against: the cached ones, or those
\* the access has just fetched.
CheckedRoots ==
    IF pre.tree_roots # None THEN pre.tree_roots[1] ELSE fetched[1].roots[1]

IsRoot ==
    \E i \in 1..Len(CheckedRoots.nodes[<<>>].children) :
        CheckedRoots.nodes[<<>>].children[i] = call.root

\* What full_status does for a root of the suite: a status fetch on the first
\* access only, the cache untouched afterwards.
FullStatusOfRoot ==
    /\ raised = NoError
    /\ StatusFetched <=> call.root \notin DOMAIN pre.full_statuses
    /\ call.root \in DOMAIN full_statuses
    /\ call.root \in DOMAIN pre.full_statuses => full_statuses = pre.full_statuses

\* C9 as stated: full_status(path) raises the usage error whenever path is
\* no child of the tree roots, without a status fetch and without a change
\* of the cache; otherwise it fetches the status on the first access only.
C9_UsageErrorUnlessRoot ==
    call.op = "full_status"
    => IF IsRoot THEN FullStatusOfRoot
       ELSE /\ raised = "ValueError"
            /\ ~StatusFetched
            /\ full_statuses = pre.full_statuses

\* C9 amended: full_status(path) raises whenever path is no child of the
\* tree roots, the usage error if there are roots and the error of the
\* tree_roots access if there is none, without a status fetch and without a
\* change of the cache; otherwise it fetches the status on the first access
\* only.
C9_RaisesUnlessRoot ==
    call.op = "full_status"
    => IF IsRoot THEN FullStatusOfRoot
       ELSE /\ raised = IF CheckedRoots.nodes[<<>>].children = <<>>
                        THEN "RuntimeError"
                        ELSE "ValueError"
            /\ ~StatusFetched
            /\ full_statuses = pre.full_statuses

\* The usage error for a root that is cached but not listed any more.
C9_Witness ==
    /\ call.op = "full_status"
    /\ ~IsRoot
    /\ call.root \in DOMAIN pre.full_statuses
    /\ raised = "ValueError"
    /\ fetched = <<>>

\* C10: tree_roots fetches the roots on the first access only and leaves the
\* cached roots alone afterwards; it raises if and only if the roots it
\* holds are empty.
C10_TreeRootsCached ==
    call.op = "tree_roots"
    => /\ fetched # <<>> <=> pre.tree_roots = None
       /\ \A i \in 1..Len(fetched) : fetched[i].cmd = "tree_roots" /\ i = 1
       /\ pre.tree_roots # None => tree_roots = pre.tree_roots
       /\ tree_roots # None
       /\ raised = IF tree_roots[1].nodes[<<>>].children = <<>>
                   THEN "RuntimeError"
                   ELSE NoError

\* The first access fetches an empty roots list and raises.
C10_Witness ==
    /\ call.op = "tree_roots"
    /\ pre.tree_roots = None
    /\ Len(fetched) = 1
    /\ tree_roots[1].nodes[<<>>].children = <<>>
    /\ raised = "RuntimeError"

\* The roots lists the call under way has got from the scheduler, in order.
HasRoots(f) == f.roots # None

RootsSeq == SelectSeq(fetched, HasRoots)

\* The i-th roots list got differs from the roots cached when it arrived.
RootsChange(i) ==
    LET before == IF i = 1 THEN pre.tree_roots ELSE RootsSeq[i - 1].roots
    IN  before = None \/ ~StructEq(before[1], RootsSeq[i].roots[1])

\* The cached tree of the root of the call has been installed or replaced.
StatusInstalled ==
    /\ call.root \in DOMAIN full_statuses
    /\ \/ call.root \notin DOMAIN pre.full_statuses
       \/ full_statuses[call.root].oid # pre.full_statuses[call.root].oid

\* C11: a call on an interface whose roots are cached emits one tree_roots
\* event for each roots list it got that differs from the one cached before
\* (an empty one too); any call emits one full_status event naming its root
\* if it has installed or replaced the tree of that root, and no other
\* full_status event.
C11_EveryChangeNotified ==
    call # Idle
    => /\ pre.tree_roots # None
          => Cardinality({i \in 1..Len(emitted) : emitted[i][1] = "tree_roots"})
                = Cardinality({i \in 1..Len(RootsSeq) : RootsChange(i)})
       /\ Cardinality({i \in 1..Len(emitted) : emitted[i][1] = "full_status"})
             = IF StatusInstalled THEN 1 ELSE 0
       /\ \A i \in 1..Len(emitted) :
             emitted[i][1] = "full_status" => emitted[i][2] = call.root

(***************************************************************************)
(* ExtraFlowNodeInfo: a piece of information on a node, its value being    *)
(* a string (a sequence of tokens) or None.                                *)
(***************************************************************************)
ExtraFlowNodeInfo(kind, name, val, description, editable) ==
    [kind |-> kind, name |-> name, initial_value |-> val, value |-> None,
     description |-> description, editable |-> editable]

\* ExtraFlowNodeInfo.value: None or the string
Value(i) == IF i.value = None THEN i.initial_value ELSE i.value

\* The setter of ExtraFlowNodeInfo.value: the record and the exception.
SetValue(i, new_value) ==
    IF ~i.editable
    THEN [i |-> i, raised |-> "RuntimeError"]
    ELSE [i |-> [i EXCEPT !.value = new_value], raised |-> NoError]

\* touched as it would be if any edited value counted.
touched_when_edited(i) == i.value # None

\* ExtraFlowNodeInfo.touched
touched(i) == i.value # None /\ i.value # i.initial_value

(***************************************************************************)
(* The parser of the output of the info command.  A line is its leading    *)
(* blanks (some or none) and its words.                                    *)
(***************************************************************************)
Line(indent, words) == [indent |-> indent, words |-> words]

Digits == {"1", "2", "3"}

\* The words "<digits>]" and what they enclose.
ClosedDigits == ("1]" :> "1") @@ ("2]" :> "2") @@ ("3]" :> "3")

\* The words "[<text>]" and what they enclose.
Bracketed == ("[s]" :> "s") @@ ("[0-9]" :> "0-9")

\* The words "'<text>'" and what they enclose.
Quoted == ("'v'" :> "v") @@ ("'w'" :> "w")

\* CdpOutputParserMixin._OUTPUT_IGNORE.match(line)
_OUTPUT_IGNORE(l) ==
    /\ l.words # <<>>
    /\ \/ l.words[1] \in {"Welcome", "Goodbye"}
       \/ Len(l.words) >= 2 /\ l.words[1] = "#" /\ l.words[2] = "MSG"

\* _LIMIT_RE.match(line): None or the groups
_LIMIT_RE(l) ==
    IF /\ l.indent
       /\ Len(l.words) = 6
       /\ l.words[1] = "limit"
       /\ l.words[3] = "[running"
       /\ l.words[4] \in Digits
       /\ l.words[5] = "max"
       /\ l.words[6] \in DOMAIN ClosedDigits
    THEN <<[name |-> l.words[2], run |-> l.words[4], max |-> ClosedDigits[l.words[6]]]>>
    ELSE None

\* _TRIES_CUR_RE.match(line)
_TRIES_CUR_RE(l) ==
    IF /\ ~l.indent
       /\ Len(l.words) = 4
       /\ SubSeq(l.words, 1, 3) = <<"Current", "try", "number:">>
       /\ l.words[4] \in Digits
    THEN <<[cur |-> l.words[4]]>>
    ELSE None

\* _TRIES_MAX_RE.match(line)
_TRIES_MAX_RE(l) ==
    IF /\ l.indent
       /\ Len(l.words) = 4
       /\ l.words[1] = "SMSTRIES"
       /\ l.words[2] = "="
       /\ l.words[3] \in Digits
       /\ l.words[4] \in DOMAIN Bracketed
    THEN <<[max |-> l.words[3], from |-> Bracketed[l.words[4]]]>>
    ELSE None

\* _METER_RE.match(line)
_METER_RE(l) ==
    IF /\ l.indent
       /\ Len(l.words) = 7
       /\ l.words[1] = "METER"
       /\ l.words[3] = "is"
       /\ SubSeq(l.words, 5, 6) = <<"limits", "are">>
       /\ l.words[7] \in DOMAIN Bracketed
    THEN <<[n |-> l.words[2], v |-> l.words[4], l |-> Bracketed[l.words[7]]]>>
    ELSE None

\* _LABEL_RE.match(line)
_LABEL_RE(l) ==
    IF /\ l.indent
       /\ Len(l.words) = 3
       /\ l.words[1] = "LABEL"
       /\ l.words[3] \in DOMAIN Quoted
    THEN <<[n |-> l.words[2], v |-> Quoted[l.words[3]]]>>
    ELSE None

\* _REPEAT_RE.match(line)
_REPEAT_RE(l) ==
    IF /\ Len(l.words) = 7
       /\ l.words[1] = "repeat"
       /\ l.words[2] \in {"integer", "date", "enumerated", "string"}
       /\ l.words[3] = "variable"
       /\ l.words[6] = "currently"
    THEN <<[rtype |-> l.words[2], n |-> l.words[4], info |-> l.words[5],
            v |-> l.words[7]]>>
    ELSE None

\* _TRIGGERED_BY_RE.match(line)
_TRIGGERED_BY_RE(l) ==
    ~l.indent /\ l.words = <<"Nodes", "that", "trigger", "this", "node">>

\* _TRIGGER_RE.match(line): blanks, a word, blanks, the rest of the line.
_TRIGGER_RE(l) ==
    IF l.indent /\ Len(l.words) >= 2
    THEN <<[n |-> l.words[1], v |-> Tail(l.words)]>>
    ELSE None

\* What the parser is at after some lines: the records and the trigger flag.
InfoParser(records, in_trigger_by) ==
    [info |-> records, in_trigger_by |-> in_trigger_by]

\* The record of a line outside the trigger block, by the first pattern that
\* matches, if any.
Ordinary(l) ==
    IF _LIMIT_RE(l) # None
    THEN <<ExtraFlowNodeInfo(
               "limit", _LIMIT_RE(l)[1].name, <<<<_LIMIT_RE(l)[1].max>>>>,
               <<"currently running: ", _LIMIT_RE(l)[1].run,
                 " - Use the 'reset' special value to reset things">>, TRUE)>>
    ELSE IF _TRIES_CUR_RE(l) # None
    THEN <<ExtraFlowNodeInfo(
               "flowspecific", "CurrentTryNumber", <<<<_TRIES_CUR_RE(l)[1].cur>>>>,
               <<>>, FALSE)>>
    ELSE IF _TRIES_MAX_RE(l) # None
    THEN <<ExtraFlowNodeInfo(
               "flowspecific", "MaxTries", <<<<_TRIES_MAX_RE(l)[1].max>>>>,
               <<"inherited from '", _TRIES_MAX_RE(l)[1].from, "'">>, TRUE)>>
    ELSE IF _METER_RE(l) # None
    THEN <<ExtraFlowNodeInfo(
               "meter", _METER_RE(l)[1].n, <<<<_METER_RE(l)[1].v>>>>,
               <<"limits are [", _METER_RE(l)[1].l, "]">>, TRUE)>>
    ELSE IF _LABEL_RE(l) # None
    THEN <<ExtraFlowNodeInfo(
               "label", _LABEL_RE(l)[1].n, <<<<_LABEL_RE(l)[1].v>>>>, <<>>, FALSE)>>
    ELSE IF _REPEAT_RE(l) # None
    THEN <<ExtraFlowNodeInfo(
               "repeat", _REPEAT_RE(l)[1].n, <<<<_REPEAT_RE(l)[1].v>>>>,
               <<"type: ", _REPEAT_RE(l)[1].rtype, ". info: ",
                 _REPEAT_RE(l)[1].info>>, TRUE)>>
    ELSE <<>>

\* The body of the loop of _parse_info_outputs once the line is known not
\* to be a trigger of the block under way.
InfoLineOutside(p, l) ==
    IF _TRIGGERED_BY_RE(l) THEN InfoParser(p.info, TRUE)
    ELSE InfoParser(p.info \o Ordinary(l), FALSE)

\* The body of the loop as it would be if the ordinary patterns were tried
\* before the trigger pattern.
InfoLine_patterns_first(p, l) ==
    IF _OUTPUT_IGNORE(l) THEN p
    ELSE IF p.in_trigger_by /\ Ordinary(l) = <<>> /\ _TRIGGER_RE(l) # None
    THEN InfoParser(
             Append(p.info,
                    ExtraFlowNodeInfo("trigger", _TRIGGER_RE(l)[1].n,
                                      <<_TRIGGER_RE(l)[1].v>>, <<>>, FALSE)),
             TRUE)
    ELSE InfoLineOutside(p, l)

\* The body of the loop of _parse_info_outputs.
InfoLine(p, l) ==
    IF _OUTPUT_IGNORE(l) THEN p
    ELSE IF p.in_trigger_by /\ _TRIGGER_RE(l) # None
    THEN InfoParser(
             Append(p.info,
                    ExtraFlowNodeInfo("trigger", _TRIGGER_RE(l)[1].n,
                                      <<_TRIGGER_RE(l)[1].v>>, <<>>, FALSE)),
             TRUE)
    ELSE InfoLineOutside(p, l)

\* The parser after the first n lines of the text.
InfoParserAfter(text, n) ==
    LET F[i \in 0..n] ==
            IF i = 0 THEN InfoParser(<<>>, FALSE) ELSE InfoLine(F[i - 1], text[i])
    IN  F[n]

\* CdpOutputParserMixin._parse_info_outputs
_parse_info_outputs(text) == InfoParserAfter(text, Len(text)).info

(***************************************************************************)
(* save_node_info and the commands of CdpInterface for it.                 *)
(***************************************************************************)
\* "/{suite}/{node.full_path}" for the node whose information is edited.
node_sms_path == "/suite/r/a"

\* str.endswith("reset"), the string cut so that a final "reset" is a token.
EndsWithReset(str) == str # <<>> /\ Last(str) = "reset"

\* The commands of _actual_save_node_info for one change.
ChangeCommands(change) ==
    IF change.kind = "flowspecific" /\ change.name = "MaxTries"
    THEN IF Value(change)[1] # <<>>
         THEN <<<<"alter -v", node_sms_path, "SMSTRIES">> \o Value(change)[1]>>
         ELSE <<<<"alter -r -v", node_sms_path, "SMSTRIES">>>>
    ELSE IF change.kind = "limit"
    THEN (IF ~EndsWithReset(Value(change)[1])
          THEN <<<<"alter -M", node_sms_path, change.name>> \o Value(change)[1]>>
          ELSE <<>>)
         \o <<<<"reset", node_sms_path, change.name>>>>
    ELSE IF change.kind = "meter"
    THEN <<<<"alter -m", node_sms_path, change.name>> \o Value(change)[1]>>
    ELSE IF change.kind = "repeat"
    THEN <<<<"alter -R", node_sms_path, change.name>> \o Value(change)[1]>>
    ELSE <<>>

\* _actual_save_node_info knows how to update the change.
Implemented(change) ==
    \/ change.kind = "flowspecific" /\ change.name = "MaxTries"
    \/ change.kind \in {"limit", "meter", "repeat"}

\* "\n".join(lines)
JoinLines(lines) ==
    LET F[i \in 0..Len(lines)] ==
            IF i = 0 THEN <<>>
            ELSE IF i = 1 THEN lines[1]
            ELSE F[i - 1] \o <<"\n">> \o lines[i]
    IN  F[Len(lines)]

\* str.split("\n")
SplitLines(str) ==
    LET F[i \in 0..Len(str)] ==
            IF i = 0 THEN <<<<>>>>
            ELSE IF str[i] = "\n" THEN Append(F[i - 1], <<>>)
            ELSE [F[i - 1] EXCEPT ![Len(F[i - 1])] = Append(@, str[i])]
    IN  F[Len(str)]

\* command.format(path): the replacement fields of the command filled in.
Format(command, filler) ==
    [i \in 1..Len(command) |-> IF command[i] = "{}" THEN filler ELSE command[i]]

\* What save_node_info did: the records it kept, the commands stacked, those
\* written to the session, the text returned (None if none), the exception.
Saved(op, todo, c_stack, written, result, exc) ==
    [op |-> op, todo |-> todo, c_stack |-> c_stack, written |-> written,
     result |-> result, raised |-> exc]

\* _run_cdp_command on the stack of commands, the session raising an error
\* on the command number fail (0: on none): the commands written and the
\* lines got.
RunStack(c_stack, fail) ==
    LET cmds == SplitLines(Format(JoinLines(c_stack), "/suite/fake_path"))
        none == fail = 0 \/ fail > Len(cmds)
        done == IF none THEN Len(cmds) ELSE fail - 1
    IN  [written |-> IF none THEN cmds ELSE SubSeq(cmds, 1, fail),
         outputs |-> [i \in 1..done |-> <<"out">>]]

\* CdpInterface._actual_save_node_info
_actual_save_node_info(todo, fail) ==
    LET F[i \in 0..Len(todo)] ==
            IF i = 0 THEN <<>> ELSE F[i - 1] \o ChangeCommands(todo[i])
        c_stack == F[Len(todo)]
    IN  IF \E i \in 1..Len(todo) : ~Implemented(todo[i])
        THEN Saved("save_node_info", todo, <<>>, <<>>, None, "NotImplementedError")
        ELSE Saved("save_node_info", todo, c_stack, RunStack(c_stack, fail).written,
                   <<JoinLines(RunStack(c_stack, fail).outputs)>>, NoError)

\* FlowInterface.save_node_info
save_node_info(records, fail) ==
    LET todo == SelectSeq(records, touched)
    IN  IF todo # <<>> THEN _actual_save_node_info(todo, fail)
        ELSE Saved("save_node_info", todo, <<>>, <<>>, None, NoError)

(***************************************************************************)
(* SpecInfo: the information of a node is fetched, edited and saved.       *)
(***************************************************************************)
\* CdpInterface.node_info(node)
NodeInfo(texts) ==
    \E text \in texts, ok \in BOOLEAN :
        /\ info_list' = IF ok THEN _parse_info_outputs(text)
                        ELSE <<ExtraFlowNodeInfo(
                                   "error", "The node's could not be retrieved",
                                   None, <<>>, FALSE)>>
        /\ last_output' = text
        /\ last_save' = None
        /\ UNCHANGED <<flowVars, nodeVars, smsrc, parsed_status>>

\* The values typed in for a record.
EditValues == {<<"2">>, <<"5">>, <<"reset">>, <<"no", "reset">>, <<>>}

\* info.value = new_value
EditValue ==
    \E i \in 1..Len(info_list), new_value \in {None} \cup {<<v>> : v \in EditValues} :
        /\ info_list' = [info_list EXCEPT ![i] = SetValue(@, new_value).i]
        /\ last_save' = <<Saved("value", <<>>, <<>>, <<>>, None,
                               SetValue(info_list[i], new_value).raised)>>
        /\ UNCHANGED <<flowVars, last_output, nodeVars, smsrc, parsed_status>>

\* The most commands of a save.
MaxStack == 4

\* flow.save_node_info(node, info)
SaveNodeInfo ==
    \E fail \in 0..MaxStack :
        /\ last_save' = <<save_node_info(info_list, fail)>>
        /\ UNCHANGED <<flowVars, info_list, last_output, nodeVars, smsrc, parsed_status>>

\* Lines of the output of the info command.
LimitLine == Line(TRUE, <<"limit", "lim", "[running", "1", "max", "2]">>)

TriesCurLine == Line(FALSE, <<"Current", "try", "number:", "1">>)

TriesMaxLine == Line(TRUE, <<"SMSTRIES", "=", "2", "[s]">>)

MeterLine == Line(TRUE, <<"METER", "met", "is", "2", "limits", "are", "[0-9]">>)

LabelLine == Line(TRUE, <<"LABEL", "lab", "'v'">>)

RepeatLine ==
    Line(FALSE, <<"repeat", "integer", "variable", "rep", "1-3", "currently", "2">>)

\* The outputs whose records are edited.
EditedOutputs ==
    {<<LimitLine, TriesMaxLine, LabelLine>>,
     <<TriesCurLine, MeterLine, RepeatLine>>,
     <<LimitLine, RepeatLine>>}

\* The lines of the outputs that are parsed.
InfoLines ==
    {LimitLine, TriesCurLine, TriesMaxLine, MeterLine, LabelLine, RepeatLine,
     Line(TRUE, RepeatLine.words),
     Line(TRUE, TriesCurLine.words),
     Line(FALSE, <<"Nodes", "that", "trigger", "this", "node">>),
     Line(TRUE, <<"/suite/r/b", "complete">>),
     Line(FALSE, <<"#", "MSG", "x">>),
     Line(TRUE, <<"Welcome", "x">>),
     Line(FALSE, <<"x", "y">>),
     Line(TRUE, <<"x">>)}

\* The most lines of an output that is parsed.
MaxLines == 3

ParsedOutputs == UNION {[1..n -> InfoLines] : n \in 0..MaxLines}

NextInfo ==
    \/ NodeInfo(EditedOutputs)
    \/ EditValue
    \/ SaveNodeInfo

SpecInfo == Init /\ [][NextInfo]_vars

\* The first node_info: the parser has no state of its own, each output is
\* parsed from scratch.
FirstNodeInfo ==
    /\ info_list = <<>>
    /\ last_output = <<>>
    /\ NodeInfo(ParsedOutputs)

NextInfoParse == FirstNodeInfo

SpecInfoParse == Init /\ [][NextInfoParse]_vars

(***************************************************************************)
(* Claims on the session: specification SpecCdp.                           *)
(***************************************************************************)
\* The command thread is between the start of a command sequence and the
\* read of its last response.
InSequence ==
    pc.main \in {"next", "login_w", "login_r", "suites_w", "suites_r", "reg_w",
                 "reg_r", "cmd_r"}

\* A command has been written and its response is not read yet.
AwaitingResponse == frame.reply # None

\* C12: while the command thread is inside a command sequence the heartbeat
\* thread is neither at its idle check nor in close; exit is never written
\* to a session that has a command awaiting its response.
C12_HeartbeatExcluded ==
    /\ InSequence => pc.hb \notin {"check", "exit_r"}
    /\ pc.hb = "exit_r" => ~AwaitingResponse

\* The heartbeat waits for the lock while a command of an overdue session
\* awaits its response.
C12_Witness ==
    /\ pc.main = "cmd_r"
    /\ pc.hb = "lock"
    /\ Len(frame.todo) = 1
    /\ cdp_client_obj[1].idle > cdp_timeout

\* The lines the subprocess printed for a command, the prompts stripped.
Printed(r) == [i \in 1..Len(r.lines) |-> Strip(r.lines[i])]

\* C13: the lines a send_command returns are the lines the subprocess
\* printed in response to that command, the prompts stripped, whatever the
\* lines are.
C13_ExactLines ==
    \A k \in 1..Len(hist.sends) :
        hist.sends[k].raised = NoError
        => hist.sends[k].outputs = Printed(hist.sends[k].reply)

\* C14: a call during which the subprocess terminates records the exit
\* code and drains the output, leaving nothing unread; every command issued
\* afterwards on that client raises a session error and nothing is written.
C14_DeadSessionRaises ==
    /\ \A k \in 1..Len(hist.sends) :
          LET s == hist.sends[k]
          IN  /\ (~s.dead /\ s.reply.exits) => s.rc = <<s.reply.code>>
              /\ s.dead => s.raised \in SessionErrors /\ s.outputs = <<>>
    /\ (pc.main = "done" /\ cdp_client_obj # None /\ hist.sends # <<>>
           /\ Last(hist.sends).reply.exits)
       => /\ ~cdp_client_obj[1].alive
          /\ cdp_client_obj[1].rc = <<Last(hist.sends).reply.code>>
          /\ cdp_client_obj[1].stream = <<>>
    /\ (pc.main = "done" /\ hist.start # None /\ ~hist.start[1].alive)
       => /\ hist.sent = <<>>
          /\ Len(hist.sends) = 1
          /\ hist.sends[1].dead

\* An operation has found dead the subprocess that terminated during an
\* earlier operation.
C14_Witness ==
    /\ pc.main = "done"
    /\ hist.start # None
    /\ hist.start[1].rc = <<1>>
    /\ hist.sends # <<>>
    /\ hist.sends[1].dead
    /\ hist.sends[1].raised = "CdpClientError"

\* C15: send_command raises a session error whenever a line of the output
\* starts with the error prefix, the subprocess running or not; it returns
\* only when there is no such line and the subprocess is running.
C15_ErrorLineRaises ==
    \A k \in 1..Len(hist.sends) :
        LET s == hist.sends[k]
        IN  /\ HasErrorLine(s.outputs) => s.raised \in SessionErrors
            /\ s.raised = NoError
               => ~HasErrorLine(s.outputs) /\ s.rc = None /\ ~s.dead /\ ~s.reply.exits

\* A command of an operation got an error line from a subprocess that goes
\* on running.
C15_Witness ==
    /\ pc.main = "done"
    /\ cdp_client_obj # None
    /\ cdp_client_obj[1].alive
    /\ hist.sends # <<>>
    /\ Last(hist.sends).cmd[1] \in {ControlCommand(op) : op \in ControlOps}
    /\ HasErrorLine(Last(hist.sends).outputs)
    /\ Last(hist.sends).rc = None
    /\ Last(hist.sends).raised = "CdpClientError"

\* The log record shows the password.
ShowsPassword(rec) ==
    \E i \in 1..Len(rec.cmd) : rec.cmd[i] = credentials.password

\* C16: whatever the reply to the login command, no log record of the
\* client, at any level, shows the password.
C16_NoPasswordLogged == \A rec \in hist.log : ~ShowsPassword(rec)

\* The login command of the operation got a reply, without a session
\* error, whose last line does not confirm the user and the host of the
\* credentials (no last line at all included).
LoginNotConfirmed ==
    /\ pc.main = "done"
    /\ hist.sends # <<>>
    /\ hist.sends[1].cmd = LoginCommand(credentials)
    /\ hist.sends[1].raised = NoError
    /\ LET outputs == hist.sends[1].outputs
       IN  \/ outputs = <<>>
           \/ Last(outputs) # <<"# MSG:SMS-CLIENT-LOGIN:", credentials.user,
                                credentials.host>>

\* C17: when the reply to the login command does not confirm the user and
\* the host, creating the session raises a login error (which the operation
\* reports as a failure), no other command is sent and the interface holds
\* no session.
C17_LoginErrorUnlessConfirmed ==
    LoginNotConfirmed
    => /\ LoginCheck(hist.sends[1].outputs, credentials) = "CdpClientLoginError"
       /\ raised = NoError
       /\ hist.rc = <<FALSE>>
       /\ Len(hist.sends) = 1
       /\ cdp_client_obj = None

\* The commands of the operation of the call, by their first words.
OperationCommands ==
    LET cmds == IF call.op = "refresh_tree_roots" THEN RootsCommands
                ELSE ControlCommands(call.op)
    IN  [i \in 1..Len(cmds) |-> cmds[i][1]]

\* The operation has run all its commands without a session error.
Succeeded == pc.main = "done" /\ hist.rc = <<TRUE>> /\ raised = NoError

\* C18: a successful operation on an interface that holds a session writes
\* its own commands to that session and nothing else (no spawn, no login, no
\* register); one on an interface that holds none spawns the subprocess once
\* and sends one login and one register, before its first command.
C18_SessionReused ==
    Succeeded
    => hist.sent = (IF hist.start = None
                    THEN <<"spawn", "login", "suites", "register">>
                    ELSE <<>>) \o OperationCommands

\* A control operation has succeeded on the session that an earlier
\* operation left.
C18_Witness ==
    /\ Succeeded
    /\ hist.start # None
    /\ call.op \in ControlOps
    /\ Len(hist.sent) = Len(ExpandedPaths)

\* The client has raised a session error on a command of the control
\* operation of the call.
ControlFailed ==
    /\ pc.main = "done"
    /\ call.op \in ControlOps
    /\ \E k \in 1..Len(hist.sends) : hist.sends[k].raised \in SessionErrors

\* The send_command is of a command of the operation and has returned.
CommandReturned(s) ==
    s.cmd[1] \in {ControlCommand(op) : op \in ControlOps} /\ s.raised = NoError

\* The lines of the commands of the failed operation that returned (at most
\* the first of its two did).
ReturnedLines ==
    LET done == SelectSeq(hist.sends, CommandReturned)
    IN  IF done = <<>> THEN <<>> ELSE done[1].outputs

\* C19: a control operation on which the client raises a session error
\* returns its text (the lines got before the error) and raises nothing; the
\* roots cache and the per-root cache are as before the operation and no
\* event is emitted.
C19_ControlFailureReturned ==
    ControlFailed
    => /\ raised = NoError
       /\ hist.rc = <<FALSE>>
       /\ frame.outputs = ReturnedLines
       /\ tree_roots = pre.tree_roots
       /\ full_statuses = pre.full_statuses
       /\ emitted = <<>>

\* The session has raised on the second path of a control operation, the
\* roots being cached.
C19_Witness ==
    /\ ControlFailed
    /\ Len(hist.sends) = 2
    /\ hist.sends[1].raised = NoError
    /\ hist.sends[2].cmd = ControlCommands(call.op)[2]
    /\ hist.sends[2].raised = "CdpClientError"
    /\ pre.tree_roots # None
    /\ NLen(pre.tree_roots[1], <<>>) > 0

\* The operation of the call has failed with a session error.
SessionFailed == pc.main = "done" /\ hist.rc = <<FALSE>>

\* C20: once an operation has failed with a session error the interface
\* holds no session, and no command of a later operation is issued on a
\* client that has raised a session error in an earlier one.
C20_FailedSessionDropped ==
    /\ SessionFailed => cdp_client_obj = None
    /\ \A k \in 1..Len(hist.sends) : ~hist.sends[k].errored

\* C30: the text that a failed control operation hands back shows the
\* failure: it is not just the lines of the commands that succeeded, which
\* is what a successful run hands back.
C30_FailureReported == ControlFailed => frame.outputs # ReturnedLines

(***************************************************************************)
(* Claims on the information of a node: specification SpecInfo.            *)
(***************************************************************************)
\* save_node_info has just run.
JustSaved == last_save # None /\ last_save[1].op = "save_node_info"

\* The records whose edited value is set and differs from the initial one.
Changed ==
    {i \in 1..Len(info_list) :
        /\ info_list[i].value # None
        /\ info_list[i].value # info_list[i].initial_value}

\* The name that the commands of a record act on.
Target(i) == IF i.kind = "flowspecific" THEN "SMSTRIES" ELSE i.name

\* C21: save_node_info keeps the records whose edited value is set and
\* differs from the initial one, in order; each stacked command acts on one
\* of them and each of them has a stacked command; with no such record
\* nothing is stacked or written and the result is None.
C21_TouchedSubmitted ==
    JustSaved
    => /\ Len(last_save[1].todo) = Cardinality(Changed)
       /\ \A k \in 1..Len(last_save[1].todo) :
             \E i \in Changed :
                /\ last_save[1].todo[k] = info_list[i]
                /\ Cardinality({j \in Changed : j < i}) = k - 1
       /\ \A c \in 1..Len(last_save[1].c_stack) :
             \E i \in Changed : last_save[1].c_stack[c][3] = Target(info_list[i])
       /\ \A i \in Changed :
             \E c \in 1..Len(last_save[1].c_stack) :
                last_save[1].c_stack[c][3] = Target(info_list[i])
       /\ \A w \in 1..Len(last_save[1].written) :
             last_save[1].written[w] = last_save[1].c_stack[w]
       /\ Changed = {}
          => /\ last_save[1].written = <<>>
             /\ last_save[1].result = None

\* A save of two edited records, one of them edited back to its initial
\* value: the commands of the other alone are written.
C21_Witness ==
    /\ JustSaved
    /\ Cardinality({i \in 1..Len(info_list) : info_list[i].value # None}) = 2
    /\ Cardinality(Changed) = 1
    /\ last_save[1].written # <<>>
    /\ last_save[1].written = last_save[1].c_stack

\* The positions in the stack of the commands that act on the name.
StackedFor(name) ==
    {c \in 1..Len(last_save[1].c_stack) : last_save[1].c_stack[c][3] = name}

\* C22: for each touched limit record the save stacks the alter command with
\* the new maximum and, next to it, the reset command of the limit; the
\* reset command alone if and only if the value is "reset".
C22_LimitAlterThenReset ==
    JustSaved
    => \A i \in Changed :
          info_list[i].kind = "limit"
          => LET v     == info_list[i].value[1]
                 name  == info_list[i].name
                 stack == last_save[1].c_stack
             IN  IF v = <<"reset">>
                 THEN \E c \in 1..Len(stack) :
                         /\ StackedFor(name) = {c}
                         /\ stack[c] = <<"reset", node_sms_path, name>>
                 ELSE \E c \in 1..Len(stack) :
                         /\ StackedFor(name) = {c, c + 1}
                         /\ stack[c] = <<"alter -M", node_sms_path, name>> \o v
                         /\ stack[c + 1] = <<"reset", node_sms_path, name>>

(***************************************************************************)
(* Claims on the parser of the info command: specification SpecInfoParse.  *)
(***************************************************************************)
\* node_info has parsed the output.
InfoParsed == info_list = <<>> \/ info_list[1].kind # "error"

\* The line number i of the text is in a trigger block: a trigger header
\* comes before it and every line from the one after that header to the
\* line i is an indented "name value" line.
InBlock(text, i) ==
    \E j \in 1..(i - 1) :
        /\ _TRIGGERED_BY_RE(text[j])
        /\ \A k \in (j + 1)..i : _TRIGGER_RE(text[k]) # None

\* The record of the line number i of the text: a trigger in a trigger
\* block, else the record of the first ordinary pattern that matches.
RecordOfLine(text, i) ==
    IF InBlock(text, i)
    THEN <<ExtraFlowNodeInfo("trigger", text[i].words[1], <<Tail(text[i].words)>>,
                             <<>>, FALSE)>>
    ELSE Ordinary(text[i])

\* The records of the lines of the text, in the order of the lines.
RecordsByLine(text) ==
    LET F[i \in 0..Len(text)] ==
            IF i = 0 THEN <<>> ELSE F[i - 1] \o RecordOfLine(text, i)
    IN  F[Len(text)]

NotIgnored(l) == ~_OUTPUT_IGNORE(l)

\* C29: the records are those of the lines of the whole output, in order,
\* each line giving a trigger in a trigger block, else the record of the
\* first ordinary pattern it matches, else nothing; the first line that is
\* not an indented "name value" line ends the block.
C29_RecordsByLine == InfoParsed => info_list = RecordsByLine(last_output)

\* C29 amended: the same, for the lines that are left once the banner lines
\* (# MSG, Welcome, Goodbye) are taken out of the output: a banner line gives
\* no record and does not end a trigger block.
C29_RecordsByLineBannersOut ==
    InfoParsed => info_list = RecordsByLine(SelectSeq(last_output, NotIgnored))

\* A limit line in a trigger block has given a trigger, and the line that
\* ended the block its own record.
C29_Witness ==
    /\ InfoParsed
    /\ Len(last_output) = 3
    /\ _TRIGGERED_BY_RE(last_output[1])
    /\ last_output[2] = LimitLine
    /\ last_output[3] = TriesCurLine
    /\ Len(info_list) = 2
    /\ info_list[1].kind = "trigger"
    /\ info_list[2].name = "CurrentTryNumber"

(***************************************************************************)
(* SpecAdd: a tree is built by a RootFlowNode and a sequence of add calls. *)
(***************************************************************************)
MaxAdds == 3

MaxDepth == 2

\* The names given to the children.
ChildNames == {"a", "b"}

\* The statuses given to the nodes.
BuildStatuses == {"ACTIVE", "ABORTED", "SUBMITTED", "UNKNOWN", "COMPLETE"}

\* One add call, as the history keeps it: the address of the node created.
Added(addr, name, status) == [child |-> addr \o <<name>>, status |-> status]

\* RootFlowNode(name, status)
NewRoot ==
    /\ flow_node = None
    /\ add_log = <<>>
    /\ \E status \in BuildStatuses :
          flow_node' = <<RootFlowNode("r", status, 0)>>
    /\ UNCHANGED <<flowVars, infoVars, add_log, obsVars, smsrc, parsed_status>>

\* node.add(name, status), node being any node of the tree
AddNode ==
    /\ flow_node # None
    /\ Len(add_log) < MaxAdds
    /\ \E addr \in DOMAIN flow_node[1].nodes, name \in ChildNames,
          status \in BuildStatuses :
          /\ Len(addr) < MaxDepth
          /\ flow_node' = <<add(flow_node[1], addr, name, status)>>
          /\ add_log' = Append(add_log, Added(addr, name, status))
    /\ UNCHANGED <<flowVars, infoVars, obsVars, smsrc, parsed_status>>

NextAdd == NewRoot \/ AddNode

SpecAdd == Init /\ [][NextAdd]_vars

(***************************************************************************)
(* Claims on the construction of a tree: specification SpecAdd.            *)
(***************************************************************************)
\* The nodes of the tree below the root.
BuiltNodes == IF flow_node = None THEN {} ELSE DOMAIN flow_node[1].nodes \ {<<>>}

Expanded(addr) == flow_node[1].nodes[addr].expanded

\* The statuses of the nodes at and below addr.
SubtreeStatuses(addr) ==
    {flow_node[1].nodes[a].status :
        a \in {b \in DOMAIN flow_node[1].nodes : IsPrefix(addr, b)}}

\* The statuses the claim gives as expanding.
StatedExpanding == {"ACTIVE", "ABORTED", "SUBMITTED", "UNKNOWN"}

\* C26: as stated.  A node created with a status among ACTIVE, ABORTED,
\* SUBMITTED and UNKNOWN is expanded with all its ancestors, the root is
\* expanded, and a node below the root with none of these statuses at or
\* below it is not expanded.
C26_ExpandedByStatus ==
    flow_node # None =>
        /\ Expanded(<<>>)
        /\ \A addr \in BuiltNodes :
              /\ flow_node[1].nodes[addr].status \in StatedExpanding =>
                    \A k \in 0..Len(addr) : Expanded(SubSeq(addr, 1, k))
              /\ SubtreeStatuses(addr) \cap StatedExpanding = {} =>
                    ~Expanded(addr)

\* The add call that created the node now at addr.
CreatedAt(addr) ==
    CHOOSE k \in 1..Len(add_log) :
        /\ add_log[k].child = addr
        /\ \A j \in (k + 1)..Len(add_log) : add_log[j].child # addr

\* A node of status ACTIVE, ABORTED or SUBMITTED was created at or below
\* addr since the node at addr was created.
ExpandedSince(addr) ==
    \E j \in CreatedAt(addr)..Len(add_log) :
        /\ IsPrefix(addr, add_log[j].child)
        /\ add_log[j].status \in {"ACTIVE", "ABORTED", "SUBMITTED"}

\* C26: as amended.  The root is expanded, and a node below the root is
\* expanded exactly when a node of status ACTIVE, ABORTED or SUBMITTED was
\* created at or below it since its own creation, whether or not that node
\* is still in the tree; so a node created with one of these three statuses
\* is expanded with all its ancestors, and UNKNOWN expands nothing.
C26_ExpandedByCreation ==
    flow_node # None =>
        /\ Expanded(<<>>)
        /\ \A addr \in BuiltNodes : Expanded(addr) = ExpandedSince(addr)

\* A family expanded by a grandchild, beside a node of status UNKNOWN that
\* is not expanded.
C26_Witness ==
    /\ flow_node # None
    /\ \E addr \in BuiltNodes :
          /\ Len(addr) = 2
          /\ flow_node[1].nodes[addr].status = "SUBMITTED"
          /\ flow_node[1].nodes[Front(addr)].status = "COMPLETE"
          /\ Expanded(Front(addr))
    /\ \E addr \in BuiltNodes :
          /\ flow_node[1].nodes[addr].status = "UNKNOWN"
          /\ ~Expanded(addr)

(***************************************************************************)
(* Subject and the flagged property of FlowNode.  The observers of a tree  *)
(* are kept beside it: for each node and each observer, whether the        *)
(* observer is in _observers ("attached"), was taken out of it             *)
(* ("detached") or was never in it ("never").  A state s of the tree under *)
(* an operation is the tree t with the update_obs_item calls made so far.  *)
(***************************************************************************)
ObserverIds == {"o1", "o2"}

\* Subject.__init__ for every node of t
NoObservers(t) == [a \in DOMAIN t.nodes |-> [o \in ObserverIds |-> "never"]]

NoCalls == [o \in ObserverIds |-> <<>>]

\* Subject._observers of the node at addr
Attached(obs, addr) == {o \in ObserverIds : obs[addr][o] = "attached"}

\* Subject.observer_attach
observer_attach(obs, addr, o) == [obs EXCEPT ![addr][o] = "attached"]

\* Subject.observer_detach
observer_detach(obs, addr, o) ==
    [obs EXCEPT ![addr][o] = IF @ = "attached" THEN "detached" ELSE @]

\* observer.update_obs_item(item, info), as the observer keeps it
Update_obs_item(addr, what, new_value) ==
    [item |-> addr, what |-> what, is |-> new_value]

\* Subject._notify of the node at addr
NotifyObservers(s, obs, addr, what, new_value) ==
    [s EXCEPT !.calls =
        [o \in ObserverIds |->
            IF o \in Attached(obs, addr)
            THEN Append(@[o], Update_obs_item(addr, what, new_value))
            ELSE @[o]]]

\* Mutant: every assignment is notified.
flagged_setter_always_notify(s, obs, addr, new_value) ==
    NotifyObservers([s EXCEPT !.t = set_flagged(@, addr, new_value)],
                    obs, addr, "flagged", new_value)

\* FlowNode.flagged setter
flagged_setter(s, obs, addr, new_value) ==
    IF s.t.nodes[addr].flagged # new_value
    THEN NotifyObservers([s EXCEPT !.t = set_flagged(@, addr, new_value)],
                         obs, addr, "flagged", new_value)
    ELSE s

RECURSIVE flag_status(_, _, _, _, _)
RECURSIVE FlagChildren(_, _, _, _, _)
\* FlowNode.flag_status(status, leaf)
flag_status(s, obs, addr, status, leaf) ==
    LET s1 == IF /\ s.t.nodes[addr].status = status
                 /\ (~leaf \/ NLen(s.t, addr) = 0)
              THEN flagged_setter(s, obs, addr, TRUE)
              ELSE s
    IN  FlagChildren(s1, obs, addr, status, 1)

\* for c_node in self: c_node.flag_status(status), from the i-th child on
FlagChildren(s, obs, addr, status, i) ==
    IF i > NLen(s.t, addr) THEN s
    ELSE FlagChildren(
             flag_status(s, obs, addr \o <<s.t.nodes[addr].children[i]>>,
                         status, TRUE),
             obs, addr, status, i + 1)

RECURSIVE reset_flagged(_, _, _)
RECURSIVE ResetChildren(_, _, _, _)
\* FlowNode.reset_flagged
reset_flagged(s, obs, addr) ==
    LET s1 == IF s.t.nodes[addr].flagged
              THEN flagged_setter(s, obs, addr, FALSE)
              ELSE s
    IN  ResetChildren(s1, obs, addr, 1)

\* for c_node in self: c_node.reset_flagged(), from the i-th child on
ResetChildren(s, obs, addr, i) ==
    IF i > NLen(s.t, addr) THEN s
    ELSE ResetChildren(
             reset_flagged(s, obs, addr \o <<s.t.nodes[addr].children[i]>>),
             obs, addr, i + 1)

\* The tree built by RootFlowNode(name, status) and the add calls of todo.
RECURSIVE Built(_, _)
Built(t, todo) ==
    IF todo = <<>> THEN t
    ELSE Built(add(t, Front(todo[1].child), Last(todo[1].child), todo[1].status),
               Tail(todo))

\* The tree held when an operation on it starts.
Holding(t) == [t |-> t, calls |-> NoCalls]

\* An operation on flow_node ends in the state s.
Held(s) ==
    /\ flow_node' = <<s.t>>
    /\ notified' = s.calls
    /\ node_before' = flow_node
    /\ UNCHANGED <<flowVars, infoVars, add_log, flow_other, flag_call, smsrc, parsed_status>>

\* node.flagged = new_value
AssignFlagged ==
    /\ flow_node # None
    /\ observers # EmptyDict
    /\ \E addr \in DOMAIN flow_node[1].nodes, new_value \in BOOLEAN :
          Held(flagged_setter(Holding(flow_node[1]), observers, addr, new_value))
    /\ UNCHANGED observers

\* root.flag_status(status, leaf)
FlagStatus ==
    /\ flow_node # None
    /\ observers # EmptyDict
    /\ \E status \in {"ABORTED", "ACTIVE", "COMPLETE"}, leaf \in BOOLEAN :
          Held(flag_status(Holding(flow_node[1]), observers, <<>>, status, leaf))
    /\ UNCHANGED observers

\* root.reset_flagged()
ResetFlagged ==
    /\ flow_node # None
    /\ observers # EmptyDict
    /\ Held(reset_flagged(Holding(flow_node[1]), observers, <<>>))
    /\ UNCHANGED observers

\* node.observer_attach(observer)
ObserverAttach ==
    /\ flow_node # None
    /\ observers # EmptyDict
    /\ \E addr \in DOMAIN flow_node[1].nodes, o \in ObserverIds :
          observers' = observer_attach(observers, addr, o)
    /\ Held(Holding(flow_node[1]))

\* node.observer_detach(observer)
ObserverDetach ==
    /\ flow_node # None
    /\ observers # EmptyDict
    /\ \E addr \in DOMAIN flow_node[1].nodes, o \in ObserverIds :
          observers' = observer_detach(observers, addr, o)
    /\ Held(Holding(flow_node[1]))

(***************************************************************************)
(* SpecObs: the nodes of a tree are observed, flagged and unflagged.       *)
(***************************************************************************)
\* The tree observed: an aborted root with an aborted task and an active
\* task.
ObservedTree ==
    Built(RootFlowNode("r", "ABORTED", 0),
          <<Added(<<>>, "a", "ABORTED"), Added(<<>>, "b", "ACTIVE")>>)

\* The tree is built; nothing observes it yet.
Observe ==
    /\ flow_node = None
    /\ flow_node' = <<ObservedTree>>
    /\ observers' = NoObservers(ObservedTree)
    /\ notified' = NoCalls
    /\ node_before' = <<ObservedTree>>
    /\ UNCHANGED <<flowVars, infoVars, add_log, flow_other, flag_call, smsrc, parsed_status>>

NextObs ==
    \/ Observe
    \/ ObserverAttach
    \/ ObserverDetach
    \/ AssignFlagged
    \/ FlagStatus
    \/ ResetFlagged

SpecObs == Init /\ [][NextObs]_vars

(***************************************************************************)
(* Claims on the notifications of a tree: specification SpecObs.           *)
(***************************************************************************)
\* The calls that the observer o received from the node at addr during the
\* last operation.
ReceivedFrom(o, addr) == SelectSeq(notified[o], LAMBDA n : n.item = addr)

\* The last operation changed the flag of the node at addr.
FlagChanged(addr) ==
    node_before[1].nodes[addr].flagged # flow_node[1].nodes[addr].flagged

\* C28: during an operation on a tree (an assignment of flagged, flag_status
\* or reset_flagged), an observer receives from a node exactly one call,
\* carrying the new value of flagged, if it is attached to the node and the
\* flag of the node changed, and no call otherwise: nothing when the value
\* assigned is the current one, nothing from a node it was detached from.
C28_NotifiedPerChange ==
    observers # EmptyDict =>
        \A addr \in DOMAIN flow_node[1].nodes, o \in ObserverIds :
            ReceivedFrom(o, addr) =
                IF FlagChanged(addr) /\ o \in Attached(observers, addr)
                THEN <<Update_obs_item(addr, "flagged",
                                       flow_node[1].nodes[addr].flagged)>>
                ELSE <<>>

\* An operation changed the flags of two nodes: an observer attached to
\* both received two calls, and an observer detached from one of them
\* received nothing from it.
C28_Witness ==
    /\ observers # EmptyDict
    /\ FlagChanged(<<"a">>)
    /\ FlagChanged(<<"b">>)
    /\ observers[<<"a">>]["o1"] = "attached"
    /\ observers[<<"b">>]["o1"] = "attached"
    /\ Len(notified["o1"]) = 2
    /\ observers[<<"a">>]["o2"] = "detached"
    /\ observers[<<"b">>]["o2"] = "attached"
    /\ Len(notified["o2"]) = 1

(***************************************************************************)
(* SpecEq: two trees are built, then the first one is flagged, expanded by *)
(* the user, focused and left to age, and compared with the second.        *)
(***************************************************************************)
\* The trees compared.  They differ by the name of the root, a status, the
\* number of children, their order, or a node two levels down; the last two
\* differ only by expanded, a child of the last having been replaced.
ComparedTrees ==
    {Built(RootFlowNode(n, "ABORTED", 0), todo) :
        n \in {"r"},
        todo \in {<<>>,
                  <<Added(<<>>, "a", "ABORTED")>>,
                  <<Added(<<>>, "a", "COMPLETE")>>,
                  <<Added(<<>>, "a", "ABORTED"), Added(<<>>, "b", "COMPLETE")>>,
                  <<Added(<<>>, "b", "COMPLETE"), Added(<<>>, "a", "ABORTED")>>,
                  <<Added(<<>>, "a", "COMPLETE"), Added(<<"a">>, "x", "ACTIVE")>>,
                  <<Added(<<>>, "a", "COMPLETE"), Added(<<"a">>, "x", "COMPLETE")>>,
                  <<Added(<<>>, "a", "COMPLETE"), Added(<<"a">>, "x", "ACTIVE"),
                    Added(<<"a">>, "x", "COMPLETE")>>}}
        \cup {Built(RootFlowNode("s", "ABORTED", 0), <<Added(<<>>, "a", "ABORTED")>>)}

\* Two trees are built.
Compare ==
    /\ flow_node = None
    /\ \E t1 \in ComparedTrees, t2 \in ComparedTrees :
          /\ flow_node' = <<t1>>
          /\ flow_other' = <<t2>>
          /\ observers' = NoObservers(t1)
          /\ node_before' = <<t1>>
    /\ notified' = NoCalls
    /\ UNCHANGED <<flowVars, infoVars, add_log, flag_call, smsrc, parsed_status>>

\* node.user_expanded = True
UserExpands ==
    /\ flow_node # None
    /\ flow_other # None
    /\ \E addr \in DOMAIN flow_node[1].nodes :
          Held(Holding(set_user_expanded(flow_node[1], addr, TRUE)))
    /\ UNCHANGED observers

\* root.focused = node
Focuses ==
    /\ flow_node # None
    /\ flow_other # None
    /\ \E addr \in DOMAIN flow_node[1].nodes :
          Held(Holding(set_focused(flow_node[1], flow_node[1].oid, addr)))
    /\ UNCHANGED observers

\* One second passes.
Ages ==
    /\ flow_node # None
    /\ flow_other # None
    /\ flow_node[1].age = 0
    /\ Held(Holding(Older(flow_node[1])))
    /\ UNCHANGED observers

NextEq ==
    \/ Compare
    \/ AssignFlagged
    \/ FlagStatus
    \/ ResetFlagged
    \/ UserExpands
    \/ Focuses
    \/ Ages

SpecEq == Init /\ [][NextEq]_vars

(***************************************************************************)
(* Claims on the equality of trees: specification SpecEq.                  *)
(***************************************************************************)
\* C25: two trees are equal exactly when they have the same structure (the
\* same name, and at every node the same status and the same children in
\* the same order), in both directions of the comparison, whatever the
\* flags, the choices of expansion, the focus and the age of the trees.
C25_EqualityStructural ==
    flow_node # None /\ flow_other # None =>
        /\ NodeEq(flow_node[1], <<>>, flow_other[1], <<>>)
              = StructEq(flow_node[1], flow_other[1])
        /\ NodeEq(flow_other[1], <<>>, flow_node[1], <<>>)
              = StructEq(flow_node[1], flow_other[1])

\* Two equal trees of three nodes that differ by a flag, by expanded, by a
\* user's choice, by the focus and by the age.
C25_Witness ==
    /\ flow_node # None
    /\ flow_other # None
    /\ NodeEq(flow_node[1], <<>>, flow_other[1], <<>>)
    /\ <<"a", "x">> \in DOMAIN flow_node[1].nodes
    /\ flow_node[1].nodes[<<"a", "x">>].flagged
    /\ flow_node[1].nodes[<<"a">>].expanded # flow_other[1].nodes[<<"a">>].expanded
    /\ flow_node[1].nodes[<<"a">>].user_expanded # None
    /\ flow_node[1].focused # flow_other[1].focused
    /\ flow_node[1].age # flow_other[1].age

(***************************************************************************)
(* SmsRcReader: the credentials file.  A line of the file is its three     *)
(* items, the host being a sequence of characters; _smsrc is kept as the   *)
(* hosts in the order of their first line and, for each host, the password *)
(* of each user.                                                           *)
(***************************************************************************)
SmsRcLine(s_host, user, password) ==
    [host |-> s_host, user |-> user, password |-> password]

\* SmsRcReader.__init__: the loop on the lines of the file.
RECURSIVE ReadSmsRc(_, _)
ReadSmsRc(rc, smsrc_lines) ==
    IF smsrc_lines = <<>> THEN rc
    ELSE LET l    == smsrc_lines[1]
             seen == \E i \in 1..Len(rc.hosts) : rc.hosts[i] = l.host
             old  == IF seen THEN rc.of[l.host] ELSE EmptyDict
             new  == [u \in DOMAIN old \cup {l.user} |->
                         IF u = l.user THEN l.password ELSE old[u]]
         IN  ReadSmsRc([hosts |-> IF seen THEN rc.hosts
                                  ELSE Append(rc.hosts, l.host),
                        of    |-> [h \in DOMAIN rc.of \cup {l.host} |->
                                      IF h = l.host THEN new ELSE rc.of[h]]],
                       Tail(smsrc_lines))

SmsRcReader(smsrc_lines) == ReadSmsRc([hosts |-> <<>>, of |-> EmptyDict], smsrc_lines)

\* What get_password gives: a password, or the KeyError raised and its text.
Password(password) == [exc |-> NoError, text |-> "", password |-> <<password>>]

RaisedKeyError(text) == [exc |-> "KeyError", text |-> text, password |-> None]

\* SmsRcReader.get_password(host, user), from the i-th host on
RECURSIVE GetPasswordFrom(_, _, _, _)
GetPasswordFrom(rc, host, user, i) ==
    IF i > Len(rc.hosts) THEN RaisedKeyError("No credentials found")
    ELSE IF IsPrefix(host, rc.hosts[i])
         THEN IF user \in DOMAIN rc.of[rc.hosts[i]]
              THEN Password(rc.of[rc.hosts[i]][user])
              ELSE RaisedKeyError(user)
         ELSE GetPasswordFrom(rc, host, user, i + 1)

get_password(rc, host, user) == GetPasswordFrom(rc, host, user, 1)

(***************************************************************************)
(* SpecRc: a credentials file is read and a password is looked up.         *)
(***************************************************************************)
MaxEntries == 2

\* The lines a file is made of.
SmsRcLines ==
    {SmsRcLine(h, u, p) :
        h \in {<<"h", "1">>, <<"h", "2">>, <<"g">>}, u \in {"u", "v"},
        p \in {"p", "q"}}

SmsRcFiles == UNION {[1..n -> SmsRcLines] : n \in 0..MaxEntries}

\* SmsRcReader(rc_file).get_password(host, user)
GetPassword ==
    /\ smsrc = None
    /\ \E smsrc_lines \in SmsRcFiles, host \in {<<"h">>, <<"h", "1">>, <<"g">>, <<"k">>},
          user \in {"u", "v"} :
          smsrc' = <<[lines  |-> smsrc_lines,
                      host   |-> host,
                      user   |-> user,
                      result |-> get_password(SmsRcReader(smsrc_lines), host, user)]>>
    /\ UNCHANGED <<flowVars, infoVars, nodeVars, parsed_status>>

NextRc == GetPassword

SpecRc == Init /\ [][NextRc]_vars

(***************************************************************************)
(* Claims on the credentials: specification SpecRc.                        *)
(***************************************************************************)
\* The lines of the file looked up whose host starts with the host asked
\* for and whose user is the user asked for.
MatchingLines ==
    {i \in 1..Len(smsrc[1].lines) :
        /\ IsPrefix(smsrc[1].host, smsrc[1].lines[i].host)
        /\ smsrc[1].lines[i].user = smsrc[1].user}

\* C27: get_password gives the password of a line of the file whose host
\* starts with the host asked for and whose user is the user asked for
\* whenever the file has such a line, whatever its other lines; it raises
\* a KeyError, for no matching entry, only when the file has no such line.
C27_PrefixLookup ==
    smsrc # None =>
        IF MatchingLines # {}
        THEN /\ smsrc[1].result.exc = NoError
             /\ \E i \in MatchingLines :
                   smsrc[1].result.password = <<smsrc[1].lines[i].password>>
        ELSE smsrc[1].result.exc = "KeyError"

(***************************************************************************)
(* The parser of the output of the status command.  A line of the output   *)
(* is its leading blanks and the matches of _STATUS_DETECT in it; a match  *)
(* is its name (a string), its status code and its width, the length of    *)
(* the whole match, blanks included.  A banner line is a line that         *)
(* _OUTPUT_IGNORE matches.                                                 *)
(***************************************************************************)
StatusMatch(name, code, width) == [name |-> name, code |-> code, width |-> width]

StatusLine(blanks, matches) == [banner |-> FALSE, blanks |-> blanks, matches |-> matches]

BannerLine == [banner |-> TRUE, blanks |-> 0, matches |-> <<>>]

_STATUS_TRANSLATION ==
    [com |-> "COMPLETE", que |-> "QUEUED", sus |-> "SUSPENDED", abo |-> "ABORTED",
     sub |-> "SUBMITTED", act |-> "ACTIVE", unk |-> "UNKNOWN"]

\* str.strip("/")
StripSep(str) == RStrip(LStrip(str))

\* A name without separator as the name of a node.
NodeNamed(str) == IF Len(str) = 1 THEN str[1] ELSE str

\* The locals of _parse_status_output: root_nodes in the order of the keys,
\* current_node as the key of the root it is, and the exception raised.
StatusParser(root_nodes, from_suite, current_node, last_matches, exc) ==
    [root_nodes   |-> root_nodes,
     from_suite   |-> from_suite,
     current_node |-> current_node,
     last_matches |-> last_matches,
     exc          |-> exc]

\* root_nodes[name] = root
SetRoot(root_nodes, root) ==
    IF \E i \in 1..Len(root_nodes) : root_nodes[i].name = root.name
    THEN [i \in 1..Len(root_nodes) |->
             IF root_nodes[i].name = root.name THEN root ELSE root_nodes[i]]
    ELSE Append(root_nodes, root)

\* Mutant: a root that root_nodes already holds is kept as it is.
SetNewRoot_keep_known(root_nodes, root) ==
    IF \E i \in 1..Len(root_nodes) : root_nodes[i].name = root.name
    THEN root_nodes
    ELSE Append(root_nodes, root)

\* root_nodes[name] = RootFlowNode(name, status)
SetNewRoot(root_nodes, root) == SetRoot(root_nodes, root)

\* The matches of the previous line kept for a line with initial_blanks
\* leading blanks: the loop on last_matches, from the i-th one on.
RECURSIVE BaseMatchesFrom(_, _, _, _)
BaseMatchesFrom(last_matches, initial_blanks, i, matched_blanks) ==
    IF i > Len(last_matches) THEN <<>>
    ELSE IF matched_blanks + last_matches[i].width > initial_blanks THEN <<>>
    ELSE <<last_matches[i]>>
             \o BaseMatchesFrom(last_matches, initial_blanks, i + 1,
                                matched_blanks + last_matches[i].width)

\* Mutant: the width of a match is not counted before it is compared.
RECURSIVE BaseMatchesLate(_, _)
BaseMatchesLate(last_matches, initial_blanks) ==
    IF last_matches = <<>> \/ initial_blanks <= 0 THEN <<>>
    ELSE <<last_matches[1]>>
             \o BaseMatchesLate(Tail(last_matches),
                                initial_blanks - last_matches[1].width)

base_matches(last_matches, initial_blanks) ==
    BaseMatchesFrom(last_matches, initial_blanks, 1, 0)

\* The names of the matches, as the keys followed from a root.
MatchNames(matches) == [i \in 1..Len(matches) |-> NodeNamed(matches[i].name)]

\* The body of the loop on the matches of a line, for the match m.
StatusEntry(p, m) ==
    IF p.exc # NoError THEN p
    ELSE IF m.code \notin DOMAIN _STATUS_TRANSLATION THEN [p EXCEPT !.exc = "KeyError"]
    ELSE
    LET status == _STATUS_TRANSLATION[m.code]
        kept   == [p EXCEPT !.last_matches = Append(@, m)]
    IN  IF Len(p.last_matches) = 0
        THEN IF StripSep(m.name) = Str(suite)
             THEN [kept EXCEPT !.from_suite = TRUE]
             ELSE LET s_name  == Split(StripSep(m.name))
                      s_suite == Split(StripSep(Str(suite)))
                  IN  IF \/ Len(s_name) < Len(s_suite)
                         \/ SubSeq(s_name, 1, Len(s_suite)) # s_suite
                      THEN [p EXCEPT !.exc = "ValueError", !.from_suite = FALSE]
                      ELSE IF Len(s_name) > Len(s_suite) + 1
                      THEN [p EXCEPT !.exc = "RuntimeError", !.from_suite = FALSE]
                      ELSE LET current_name == NodeNamed(s_name[Len(s_suite) + 1])
                           IN  [kept EXCEPT
                                   !.from_suite = FALSE,
                                   !.root_nodes =
                                       SetNewRoot(@, RootFlowNode(current_name, status, 0)),
                                   !.current_node = <<current_name>>]
        ELSE IF Len(p.last_matches) = 1 /\ p.from_suite
        THEN [kept EXCEPT
                 !.root_nodes = SetNewRoot(@, RootFlowNode(NodeNamed(m.name), status, 0)),
                 !.current_node = <<NodeNamed(m.name)>>]
        ELSE LET skipped == 1 + (IF p.from_suite THEN 1 ELSE 0)
                 addr == MatchNames(SubSeq(p.last_matches, skipped + 1,
                                           Len(p.last_matches)))
                 root == ParsedGet(p.root_nodes, p.current_node[1])[1]
             IN  IF addr \notin DOMAIN root.nodes
                 THEN [p EXCEPT !.exc = "KeyError"]
                 ELSE [kept EXCEPT
                          !.root_nodes =
                              SetRoot(@, add(root, addr, NodeNamed(m.name), status))]

RECURSIVE StatusEntries(_, _)
StatusEntries(p, matches) ==
    IF matches = <<>> THEN p
    ELSE StatusEntries(StatusEntry(p, matches[1]), Tail(matches))

\* The body of the loop on the lines of the output, for the line l.
StatusLineRead(p, l) ==
    IF p.exc # NoError \/ l.banner \/ l.matches = <<>> THEN p
    ELSE StatusEntries(
             [p EXCEPT !.last_matches = base_matches(@, l.blanks)], l.matches)

RECURSIVE StatusLinesRead(_, _)
StatusLinesRead(p, output) ==
    IF output = <<>> THEN p
    ELSE StatusLinesRead(StatusLineRead(p, output[1]), Tail(output))

\* CdpOutputParserMixin._parse_status_output: what it returns or raises.
_parse_status_output(output) ==
    LET p == StatusLinesRead(StatusParser(<<>>, FALSE, None, <<>>, NoError), output)
    IN  [exc |-> p.exc, root_nodes |-> IF p.exc = NoError THEN p.root_nodes ELSE <<>>]

(***************************************************************************)
(* SpecStatus: an output of the status command is parsed, as one text or   *)
(* as two blocks one after the other.                                      *)
(***************************************************************************)
MaxStatusLines == 3

MaxBlockLines == 2

SuitePath == <<Sep, suite>>

RootPath(name) == <<Sep, suite, Sep, name>>

\* The first lines of an output: the suite and a root, a root and what is
\* below it.
BlockHeadLines ==
    {StatusLine(0, <<StatusMatch(SuitePath, "abo", 2), StatusMatch(<<"r">>, "abo", 2)>>),
     StatusLine(0, <<StatusMatch(RootPath("r"), "abo", 2), StatusMatch(<<"a">>, "abo", 2)>>)}

\* More of them: the suite alone, another root with narrower matches.
HeadLines ==
    BlockHeadLines
        \cup {StatusLine(0, <<StatusMatch(SuitePath, "abo", 2)>>),
              StatusLine(0, <<StatusMatch(RootPath("s"), "com", 2),
                              StatusMatch(<<"a">>, "com", 1)>>)}

\* First lines that the parser refuses: another suite, a path below a root,
\* a status code that is not known.
BadHeadLines ==
    {StatusLine(0, <<StatusMatch(<<Sep, "other", Sep, "r">>, "abo", 2)>>),
     StatusLine(0, <<StatusMatch(RootPath("r") \o <<Sep, "a">>, "abo", 2)>>),
     StatusLine(0, <<StatusMatch(RootPath("r"), "xxx", 2)>>)}

\* The lines that go on below the previous ones.
IndentedLines ==
    {StatusLine(2, <<StatusMatch(<<"a">>, "abo", 2)>>),
     StatusLine(2, <<StatusMatch(<<"b">>, "com", 2), StatusMatch(<<"x">>, "act", 1)>>),
     StatusLine(4, <<StatusMatch(<<"x">>, "sub", 1), StatusMatch(<<"y">>, "que", 1)>>)}

\* More of them, and the lines without a match.
OtherLines ==
    {StatusLine(3, <<StatusMatch(<<"x">>, "unk", 1)>>),
     StatusLine(0, <<>>),
     BannerLine}

StatusLines == HeadLines \cup BadHeadLines \cup IndentedLines \cup OtherLines

StatusTexts == UNION {[1..n -> StatusLines] : n \in 0..MaxStatusLines}

\* The lines of output with a match.
MatchLines(output) == SelectSeq(output, LAMBDA l : ~l.banner /\ l.matches # <<>>)

\* The outputs of one status command: the first match is at the first column.
StatusBlocks ==
    {b \in UNION {[1..n -> BlockHeadLines \cup IndentedLines] : n \in 0..MaxBlockLines} :
        MatchLines(b) # <<>> => MatchLines(b)[1].blanks = 0}

Parsed(output, blocks) ==
    [output |-> output, blocks |-> blocks, result |-> _parse_status_output(output)]

\* _parse_status_output(output)
ParseStatus ==
    /\ parsed_status = None
    /\ \E output \in StatusTexts : parsed_status' = <<Parsed(output, <<>>)>>
    /\ UNCHANGED <<flowVars, infoVars, nodeVars, smsrc>>

\* _parse_status_output(first + second)
ParseBlocks ==
    /\ parsed_status = None
    /\ \E b1 \in StatusBlocks, b2 \in StatusBlocks :
          parsed_status' = <<Parsed(b1 \o b2, <<b1, b2>>)>>
    /\ UNCHANGED <<flowVars, infoVars, nodeVars, smsrc>>

NextStatus == ParseStatus \/ ParseBlocks

SpecStatus == Init /\ [][NextStatus]_vars

(***************************************************************************)
(* Claims on the parser of the status command: specification SpecStatus.   *)
(***************************************************************************)
RECURSIVE SumWidth(_)
SumWidth(matches) ==
    IF matches = <<>> THEN 0 ELSE matches[1].width + SumWidth(Tail(matches))

\* The longest prefix of chain whose widths add up to blanks at most.
LongestPrefix(chain, blanks) ==
    LET n == CHOOSE k \in 0..Len(chain) :
                 /\ SumWidth(SubSeq(chain, 1, k)) <= blanks
                 /\ k < Len(chain) => SumWidth(SubSeq(chain, 1, k + 1)) > blanks
    IN  SubSeq(chain, 1, n)

\* The chain of the i-th line with a match, then its own matches.
RECURSIVE ChainAfter(_, _)
ChainAfter(ml, i) ==
    IF i = 0 THEN <<>>
    ELSE LongestPrefix(ChainAfter(ml, i - 1), ml[i].blanks) \o ml[i].matches

\* Every match of the output, in order, with the chain it is read under:
\* the inherited chain of its line and the matches before it on the line.
RECURSIVE Placements(_, _)
Placements(ml, i) ==
    IF i > Len(ml) THEN <<>>
    ELSE LET inherited == LongestPrefix(ChainAfter(ml, i - 1), ml[i].blanks)
         IN  [j \in 1..Len(ml[i].matches) |->
                 [chain |-> inherited \o SubSeq(ml[i].matches, 1, j - 1),
                  m     |-> ml[i].matches[j]]]
                 \o Placements(ml, i + 1)

IsSuite(m) == StripSep(m.name) = Str(suite)

\* The error of a match read under a chain, if any.
PlacementError(pl) ==
    IF pl.m.code \notin DOMAIN _STATUS_TRANSLATION THEN "KeyError"
    ELSE IF pl.chain # <<>> \/ IsSuite(pl.m) THEN NoError
    ELSE LET s_name == Split(StripSep(pl.m.name))
         IN  IF s_name[1] # Str(suite) THEN "ValueError"
             ELSE IF Len(s_name) > 2 THEN "RuntimeError"
             ELSE NoError

\* The name of the root that a match of a chain stands for.
RootNamed(m) == NodeNamed(Last(Split(StripSep(m.name))))

\* The roots once the match of pl is attached where its chain designates.
Placed(roots, pl) ==
    LET status == _STATUS_TRANSLATION[pl.m.code]
        chain  == pl.chain
        AddTo(root_name, below) ==
            SetRoot(roots, add(ParsedGet(roots, root_name)[1], MatchNames(below),
                               NodeNamed(pl.m.name), status))
    IN  IF chain = <<>>
        THEN IF IsSuite(pl.m) THEN roots
             ELSE SetRoot(roots, RootFlowNode(RootNamed(pl.m), status, 0))
        ELSE IF IsSuite(chain[1])
        THEN IF Len(chain) = 1
             THEN SetRoot(roots, RootFlowNode(NodeNamed(pl.m.name), status, 0))
             ELSE AddTo(NodeNamed(chain[2].name), SubSeq(chain, 3, Len(chain)))
        ELSE AddTo(RootNamed(chain[1]), Tail(chain))

RECURSIVE PlacedAll(_, _)
PlacedAll(roots, pls) ==
    IF pls = <<>> THEN roots ELSE PlacedAll(Placed(roots, pls[1]), Tail(pls))

\* The reference construction: what the output stands for.
Reference(output) ==
    LET pls  == Placements(MatchLines(output), 1)
        errs == {k \in 1..Len(pls) : PlacementError(pls[k]) # NoError}
    IN  IF errs # {}
        THEN [exc        |-> PlacementError(pls[CHOOSE k \in errs : \A j \in errs : k <= j]),
              root_nodes |-> <<>>]
        ELSE [exc |-> NoError, root_nodes |-> PlacedAll(<<>>, pls)]

\* C23: the parser attaches every match of the output under the node that
\* the inherited chain of its line designates (the longest prefix of the
\* chain of the previous line whose widths add up to the leading blanks of
\* the line at most, then the matches before it on the line): it returns
\* the roots of the reference construction, in the same order, with the
\* same nodes, statuses and default expansion, and raises when the
\* reference finds an error.
C23_AttachedByChain ==
    parsed_status # None =>
        parsed_status[1].result = Reference(parsed_status[1].output)

\* An output of four levels: a root and a family on the first line, two
\* levels more on an indented line.
C23_Witness ==
    /\ parsed_status # None
    /\ parsed_status[1].result.exc = NoError
    /\ \E i \in 1..Len(parsed_status[1].result.root_nodes) :
          /\ <<"a", "x", "y">> \in DOMAIN parsed_status[1].result.root_nodes[i].nodes
          /\ <<"b">> \in DOMAIN parsed_status[1].result.root_nodes[i].nodes

\* The two blocks of the output parsed, each parsed alone.
Alone(k) == _parse_status_output(parsed_status[1].blocks[k])

Keys(root_nodes) == {root_nodes[i].name : i \in 1..Len(root_nodes)}

\* Two blocks were parsed one after the other, and each parses alone.
BlocksParsed ==
    /\ parsed_status # None
    /\ parsed_status[1].blocks # <<>>
    /\ Alone(1).exc = NoError
    /\ Alone(2).exc = NoError

\* C24: as stated.  The roots of two blocks parsed one after the other are
\* the roots of the one and of the other, and every root of either block
\* has the structure it has when its block is parsed alone.
C24_BlocksIndependent ==
    BlocksParsed =>
        /\ parsed_status[1].result.exc = NoError
        /\ Keys(parsed_status[1].result.root_nodes)
              = Keys(Alone(1).root_nodes) \cup Keys(Alone(2).root_nodes)
        /\ \A k \in 1..2 : \A name \in Keys(Alone(k).root_nodes) :
              StructEq(ParsedGet(parsed_status[1].result.root_nodes, name)[1],
                       ParsedGet(Alone(k).root_nodes, name)[1])

\* C24: as amended.  For two blocks that each start at the first column,
\* the roots are those of the one and of the other; a root of the second
\* block has the structure it has when the second block is parsed alone,
\* and a root of the first block has the structure it has when the first
\* block is parsed alone unless the second block has a root of that name,
\* which then replaces it.
C24_SecondBlockWins ==
    BlocksParsed =>
        /\ parsed_status[1].result.exc = NoError
        /\ Keys(parsed_status[1].result.root_nodes)
              = Keys(Alone(1).root_nodes) \cup Keys(Alone(2).root_nodes)
        /\ \A name \in Keys(parsed_status[1].result.root_nodes) :
              StructEq(ParsedGet(parsed_status[1].result.root_nodes, name)[1],
                       IF name \in Keys(Alone(2).root_nodes)
                       THEN ParsedGet(Alone(2).root_nodes, name)[1]
                       ELSE ParsedGet(Alone(1).root_nodes, name)[1])

\* The first block lists the roots of the suite, the second one gives the
\* tree of one of them, three levels deep: that root has its tree, the
\* other root of the first block is as listed.
C24_Witness ==
    /\ BlocksParsed
    /\ Keys(Alone(1).root_nodes) = {"r", "a"}
    /\ Keys(Alone(2).root_nodes) = {"r"}
    /\ DOMAIN ParsedGet(Alone(1).root_nodes, "r")[1].nodes = {<<>>}
    /\ <<"a", "x">> \in DOMAIN ParsedGet(parsed_status[1].result.root_nodes, "r")[1].nodes
    /\ DOMAIN ParsedGet(parsed_status[1].result.root_nodes, "a")[1].nodes = {<<>>}

(***************************************************************************)
(* More claims on the caches of FlowInterface: specification Spec.         *)
(***************************************************************************)
\* The status fetches of the call under way for its root.
StatusFetches ==
    {i \in 1..Len(fetched) :
        fetched[i].cmd = "status" /\ fetched[i].root = call.root}

\* The call under way is a refresh of a cached root whose tree has no
\* focused node, and the tree it has fetched differs from the cached one.
UnfocusedChange ==
    /\ call.op = "refresh"
    /\ call.root \in DOMAIN pre.full_statuses
    /\ pre.full_statuses[call.root].focused = None
    /\ \E i \in StatusFetches :
          ~StructEq(fetched[i].value[1], pre.full_statuses[call.root])

\* C31: a refresh of a cached root whose tree has no focused node, when the
\* tree fetched differs from the cached one, ends without an error and with
\* the tree fetched as the cached tree of the root.
C31_RefreshWithoutFocus ==
    UnfocusedChange =>
        /\ raised = NoError
        /\ \E i \in StatusFetches :
              StructEq(full_statuses[call.root], fetched[i].value[1])

\* C33: when the status command has succeeded and the root asked for is in
\* its output, the tree returned for that root has the status that the
\* output gives for it, whether or not it has children.
C33_ReportedStatusCached ==
    call.op \in {"refresh", "full_status"} =>
        \A i \in StatusFetches :
            fetched[i].roots # None
            /\ <<call.root>> \in DOMAIN fetched[i].roots[1].nodes
            => fetched[i].value[1].nodes[<<>>].status
                  = fetched[i].roots[1].nodes[<<call.root>>].status

(***************************************************************************)
(* SpecParse: the refreshes of the root r when the output of a status      *)
(* command may be one that _parse_status_output refuses.                   *)
(***************************************************************************)
\* What the parser raises on the outputs that begin with a refused line.
ParseErrorReplies ==
    {ParseRaised(_parse_status_output(<<l>>).exc) : l \in BadHeadLines}

NextParse ==
    \/ Tick
    \/ Refresh("r", PoorRootsReplies \cup ParseErrorReplies,
                    PoorStatusReplies \cup ParseErrorReplies)
    \/ SetFocused({<<>>})
    \/ Handled

SpecParse == Init /\ [][NextParse]_vars

\* The output of the status command of the root was refused by the parser.
StatusParseFailed ==
    \E i \in 1..Len(fetched) :
        fetched[i].cmd = "status" /\ fetched[i].value = None

\* The output of some command of the call was refused by the parser.
ParseFailed ==
    \/ StatusParseFailed
    \/ \E i \in 1..Len(fetched) :
          fetched[i].cmd = "tree_roots" /\ fetched[i].roots = None

\* The call has ended with the exception of the parser and the interface is
\* as it was before the call.
ParseErrorPropagated ==
    /\ raised \in {r.exc : r \in ParseErrorReplies}
    /\ tree_roots = pre.tree_roots
    /\ full_statuses = pre.full_statuses
    /\ emitted = <<>>

\* C35, as stated: a parse error raised anywhere in a refresh of a root is
\* propagated and leaves both caches, their ages and the events as they were
\* before the call.
C35_ParseErrorFrameAny ==
    call.op = "refresh" /\ ParseFailed => ParseErrorPropagated

\* C35, amended: a parse error raised on the output of the status command of
\* the root is propagated and leaves both caches, their ages and the events
\* as they were before the call.
C35_ParseErrorFrame ==
    call.op = "refresh" /\ StatusParseFailed => ParseErrorPropagated

\* A refresh of a cached root, the roots cached too, has ended with the
\* error of the parser on a status code that is not known.
C35_Witness ==
    /\ call.op = "refresh"
    /\ StatusParseFailed
    /\ raised = "KeyError"
    /\ "r" \in DOMAIN full_statuses
    /\ tree_roots # None

(***************************************************************************)
(* SpecFlag: a tree is built, some of its nodes are flagged one by one,    *)
(* and flag_status is called on one of its nodes.                          *)
(***************************************************************************)
\* A tree is built; nothing observes it.
HoldTree ==
    /\ flow_node = None
    /\ \E t \in ComparedTrees :
          /\ flow_node' = <<t>>
          /\ observers' = NoObservers(t)
          /\ node_before' = <<t>>
    /\ notified' = NoCalls
    /\ UNCHANGED <<flowVars, infoVars, add_log, flow_other, flag_call, smsrc, parsed_status>>

\* node.flag_status(status, leaf), once
FlagStatusAt ==
    /\ flow_node # None
    /\ flag_call = None
    /\ \E addr \in DOMAIN flow_node[1].nodes,
          status \in {"ABORTED", "ACTIVE", "COMPLETE"}, leaf \in BOOLEAN :
          /\ flow_node' =
                <<flag_status(Holding(flow_node[1]), observers, addr, status, leaf).t>>
          /\ flag_call' = <<[addr |-> addr, status |-> status, leaf |-> leaf]>>
    /\ node_before' = flow_node
    /\ notified' = NoCalls
    /\ UNCHANGED <<flowVars, infoVars, add_log, flow_other, observers, smsrc, parsed_status>>

NextFlag ==
    \/ HoldTree
    \/ flag_call = None /\ AssignFlagged
    \/ FlagStatusAt

SpecFlag == Init /\ [][NextFlag]_vars

(***************************************************************************)
(* Claims on flag_status: specification SpecFlag.                          *)
(***************************************************************************)
\* The node at a is the node at addr or is below it.
Below(addr, a) == Len(a) >= Len(addr) /\ SubSeq(a, 1, Len(addr)) = addr

\* The node at a of the tree t is one that flag_status(status, leaf) called
\* on the node at addr has to flag.
ToFlag(t, addr, status, leaf, a) ==
    /\ Below(addr, a)
    /\ t.nodes[a].status = status
    /\ ~leaf \/ NLen(t, a) = 0

\* C38: after node.flag_status(status, leaf) the nodes flagged are the ones
\* that were flagged before and, in the subtree of the node, every node of
\* that status, with leaf only the ones without children, without leaf the
\* families too, at every depth.
C38_FlagsWholeSubtree ==
    flag_call # None =>
        \A a \in DOMAIN flow_node[1].nodes :
            flow_node[1].nodes[a].flagged
                <=> \/ node_before[1].nodes[a].flagged
                    \/ ToFlag(node_before[1], flag_call[1].addr,
                              flag_call[1].status, flag_call[1].leaf, a)

(***************************************************************************)
(* SpecClose: SpecCdp with the exit of the context of the interface: the   *)
(* command thread runs _close_connection while the heartbeat thread may be *)
(* anywhere in process_heartbeat.  Nothing is called on the interface once *)
(* its context is left.                                                    *)
(***************************************************************************)
\* A step of the command thread in _close_connection.
Closing(to, obj, lk, exc, h) ==
    /\ pc' = [pc EXCEPT !.main = to]
    /\ cdp_client_obj' = obj
    /\ lock' = lk
    /\ raised' = exc
    /\ hist' = h
    /\ UNCHANGED libVars
    /\ UNCHANGED <<rlock, frame, leaked, tree_roots, full_statuses, emitted,
                   fetched, call, pre>>

\* _close_connection: the test of the client held, outside the lock.
CloseStart ==
    /\ pc.main = "idle"
    /\ call = Idle
    /\ Closing(IF cdp_client_obj # None THEN "close_lock" ELSE "closed",
               cdp_client_obj, lock, raised, hist)

\* _close_connection takes the lock.
CloseLock ==
    /\ pc.main = "close_lock"
    /\ lock = "free"
    /\ Closing("close_use", cdp_client_obj, "main", raised, hist)

\* _close_connection calls close() on the client held and drops it; with no
\* client held the call is made on None and AttributeError leaves the with
\* block, which frees the lock.
CloseUse ==
    /\ pc.main = "close_use"
    /\ IF cdp_client_obj = None
       THEN Closing("closed", None, "free", "AttributeError", hist)
       ELSE /\ rlock = "free"
            /\ \E res \in {close(cdp_client_obj[1])} :
                  Closing("closed", None, "free", raised,
                          [hist EXCEPT !.log = @ \cup res.logs])

NextClose ==
    \/ NextCdp
    \/ CloseStart
    \/ CloseLock
    \/ CloseUse

SpecClose == Init /\ [][NextClose]_vars

(***************************************************************************)
(* Claims on the threads of CdpInterface: specification SpecClose.         *)
(***************************************************************************)
\* C32: whenever a thread is about to use the session inside the lock
\* (process_heartbeat reading idle, _close_connection calling close), the
\* session that its test outside the lock has seen is still held.
C32_SessionPresentAtUse ==
    /\ pc.hb = "check" => cdp_client_obj # None
    /\ pc.main = "close_use" => cdp_client_obj # None

(***************************************************************************)
(* More claims on the session of CdpInterface: specification SpecCdp.      *)
(***************************************************************************)
\* The subprocess of the client x (None or <<client>>) is running.
Running(x) == x # None /\ x[1].alive

\* C34: the subprocesses started by the interface that are running are at
\* most one: no subprocess dropped by a failed login or a failed
\* registration runs beside the one of the client being built or held.
C34_OneSubprocess ==
    /\ ~(leaked /\ (Running(frame.building) \/ Running(cdp_client_obj)))
    /\ ~(Running(frame.building) /\ Running(cdp_client_obj))

\* The send_command calls of the control operation of the call, in order:
\* those of its own commands, not of the creation of the session.
ControlSends ==
    SelectSeq(hist.sends, LAMBDA s : s.cmd[1] = ControlCommand(call.op))

\* The absolute path of the node at the relative path rel of the root r.
AbsolutePath(rel) == <<Sep, suite, Sep, "r", Sep>> \o rel

\* The lines of the first n send_command calls of sends, in order.
RECURSIVE OutputsOf(_, _)
OutputsOf(sends, n) ==
    IF n = 0 THEN <<>> ELSE OutputsOf(sends, n - 1) \o sends[n].outputs

\* C36: a control operation sends its commands in the order of the paths
\* given, each with the absolute path of one of them; no command follows one
\* on which the session has raised an error; what is returned is the lines
\* of the commands that returned, in order.
C36_CommandsInOrder ==
    pc.main = "done" /\ call.op \in ControlOps =>
        /\ Len(ControlSends) <= Len(ControlPaths)
        /\ \A k \in 1..Len(ControlSends) :
              /\ ControlSends[k].cmd
                    = <<ControlCommand(call.op), AbsolutePath(ControlPaths[k])>>
              /\ ControlSends[k].raised # NoError => k = Len(ControlSends)
        /\ frame.outputs
              = OutputsOf(ControlSends,
                          Cardinality({k \in 1..Len(ControlSends) :
                                          ControlSends[k].raised = NoError}))
        /\ raised = NoError /\ hist.rc = <<TRUE>>
              => Len(ControlSends) = Len(ControlPaths)

\* The command of the first path has returned lines and the session has
\* raised an error on the command of the second path.
C36_Witness ==
    /\ pc.main = "done"
    /\ call.op \in ControlOps
    /\ Len(ControlSends) = 2
    /\ ControlSends[1].outputs # <<>>
    /\ ControlSends[2].raised \in SessionErrors
    /\ frame.outputs # <<>>

\* The first words of the commands of the operations of the interface.
SchedulerWords == {ControlCommand(op) : op \in ControlOps} \cup {"status"}

\* The subprocess has printed the line that confirms the login of the user
\* of the credentials on their host, in reply to the send_command s.
LoginConfirmed(s) ==
    /\ s.cmd = LoginCommand(credentials)
    /\ \E i \in 1..Len(s.reply.lines) :
          s.reply.lines[i].text
             = <<"# MSG:SMS-CLIENT-LOGIN:", credentials.user, credentials.host>>

\* The subprocess has printed the suite of the interface in reply to the
\* suites command.
SuiteListed(s) ==
    /\ s.cmd = <<"suites">>
    /\ \E i \in 1..Len(s.reply.lines) :
          \E j \in 1..Len(s.reply.lines[i].text) :
              s.reply.lines[i].text[j] = suite

\* The client x (None or <<client>>) is bound to the suite of the interface,
\* found in the listing.
Registered(x) ==
    /\ x # None
    /\ x[1].suite = <<suite>>
    /\ x[1].suites # None
    /\ suite \in x[1].suites[1]

\* C37: a command of an operation is written either to the session that the
\* interface held when the operation started, a session bound to the suite,
\* or after the spawn of a subprocess that has confirmed the login and
\* listed the suite, and after the register command; a session that the
\* interface holds is always one bound to the suite.
C37_CommandsAfterLogin ==
    /\ \A k \in 1..Len(hist.sent) :
          hist.sent[k] \in SchedulerWords =>
              IF hist.start = None
              THEN /\ k > 4
                   /\ SubSeq(hist.sent, 1, 4)
                         = <<"spawn", "login", "suites", "register">>
                   /\ LoginConfirmed(hist.sends[1])
                   /\ SuiteListed(hist.sends[2])
                   /\ hist.sends[3].cmd = <<"register", suite>>
              ELSE Registered(hist.start)
    /\ cdp_client_obj # None => Registered(cdp_client_obj)

\* A control command has been written to a new session, after the roots had
\* been fetched on a session that the heartbeat has closed since.
C37_Witness ==
    /\ call.op \in ControlOps
    /\ hist.start = None
    /\ Len(hist.sent) = 5
    /\ hist.sent[5] \in SchedulerWords
    /\ tree_roots # None
    /\ NLen(tree_roots[1], <<>>) > 0

(***************************************************************************)
(* SpecLock: the threads of SpecClose on the forced refresh of the roots,   *)
(* with the fairness that the progress of the                              *)
(* threads gives: a thread inside the lock goes on (the subprocess         *)
(* answers or ends, the reads return), and a thread that waits for the     *)
(* lock is not passed over for ever when the lock is freed again and       *)
(* again.  Nothing makes the user start an operation or leave the context. *)
(***************************************************************************)
\* The steps of _run_cdp_command inside the lock.
InLockSteps ==
    \/ Spawn
    \/ LoginWrite
    \/ LoginRead
    \/ SuitesWrite
    \/ SuitesRead
    \/ RegisterWrite
    \/ RegisterRead
    \/ CommandWrite
    \/ CommandRead

NextLock ==
    \/ ForcedRefreshTreeRoots
    \/ InLockSteps
    \/ Returns
    \/ HeartbeatStart
    \/ HeartbeatLock
    \/ HeartbeatCheck
    \/ HeartbeatClosed
    \/ Idles
    \/ OrphanExits
    \/ CloseStart
    \/ CloseLock
    \/ CloseUse

SpecLock == Init /\ [][NextLock]_vars

SpecLockFair ==
    /\ SpecLock
    /\ WF_vars(InLockSteps)
    /\ WF_vars(HeartbeatCheck)
    /\ WF_vars(HeartbeatClosed)
    /\ WF_vars(CloseUse)
    /\ SF_vars(HeartbeatLock)
    /\ SF_vars(CloseLock)

(***************************************************************************)
(* Claims on the lock of CdpInterface: specification SpecLockFair.         *)
(***************************************************************************)
\* Where the command thread is when it holds the lock of the interface.
MainInLock ==
    {"next", "login_w", "login_r", "suites_w", "suites_r", "reg_w", "reg_r",
     "cmd_r", "close_use"}

\* Where the heartbeat thread is when it holds it.
HeartbeatInLock == {"check", "exit_r"}

\* The lock is held exactly by the thread that is inside a with block, and
\* by no thread that has left it, with or without an exception; a thread
\* that waits for the lock does not hold it; no event goes to the observers
\* while the command thread holds it.
LockHeldInside ==
    /\ lock = "main" <=> pc.main \in MainInLock
    /\ lock = "hb" <=> pc.hb \in HeartbeatInLock
    /\ lock \in {"free", "main", "hb"}
    /\ lock = "main" => emitted = <<>>

====
